---- MODULE Spec2Model ----
(***************************************************************************)
(* Single-node blockchain ledger: Blockchain (chain.rs), AccountState      *)
(* (account.rs), Transaction (transaction.rs), Block (block.rs) and the    *)
(* signature contract of crypto.rs.                                        *)
(*                                                                         *)
(* Money is f64 in the source; the model counts it in integer multiples of *)
(* 0.01 (the minimum fee), so 50.0 is 5000 and 0.01 is 1.                  *)
(* Ed25519 is modelled symbolically: a signature is the pair (signing key, *)
(* signed bytes) and verifies only against that key and those bytes.       *)
(* SHA-256 is modelled by a deterministic mixing function of the hashed    *)
(* fields that yields a string of HashLen hexadecimal digits.              *)
(***************************************************************************)
EXTENDS Integers, Sequences, FiniteSets, TLC

(* ---------------------------- bounds ---------------------------------- *)
NumThreads == 2      \* request-handler threads sharing the Blockchain
MaxCalls   == 3      \* add_transaction calls that pass the checks, plus
                     \* mine_block calls
MaxAdds    == 2      \* add_transaction calls that pass the checks
MaxMines   == 2      \* mine_block calls
MaxFunds   == 1      \* update_account fundings before the first admission
MaxAmount  == 1      \* largest transaction amount submitted
MaxNonce   == 1      \* largest transaction nonce submitted
HashLen    == 5      \* hex digits of a hash string (64 for SHA-256)

(* ----------------------- program constants ---------------------------- *)
Difficulty   == 4        \* Blockchain::new: difficulty
MiningReward == 5000     \* Blockchain::new: mining_reward 50.0
MinimumFee   == 1        \* Blockchain::new: minimum_fee 0.01
HexBase      == 16       \* format!("{:x}", ...): hexadecimal digits

Threads       == 1..NumThreads
Wallets       == {"A", "B"}          \* addresses that are base58 public keys
SystemAddress == "0"                 \* Transaction::new_coinbase sender
Addresses     == Wallets \cup {SystemAddress}
Amounts       == (0 - 1)..MaxAmount
Fees          == 0..MinimumFee
Nonces        == 0..MaxNonce
FundAmounts   == {MaxAmount + MinimumFee}

(* ------------------------------ crypto.rs ----------------------------- *)
None == <<>>
Some(x) == <<x>>

\* Address::to_public_key: bs58 decoding; '0' is not a base58 digit
to_public_key(address) ==
    IF address \in Wallets
      THEN [ok |-> TRUE, key |-> address, err |-> "none"]
      ELSE [ok |-> FALSE, key |-> address, err |-> "CryptoError"]

\* Wallet::sign
Wallet_sign(wallet, message) == [signer |-> wallet, msg |-> message]

\* verification that does not bind the signature to the sender's key
crypto_verify_signature_anykey(message, signature, public_key) ==
    signature.msg = message

\* verification that does not bind the signature to the signed bytes
crypto_verify_signature_anymsg(message, signature, public_key) ==
    signature.signer = public_key

\* crypto::verify_signature
crypto_verify_signature(message, signature, public_key) ==
    signature.signer = public_key /\ signature.msg = message

(* --------------------------- transaction.rs --------------------------- *)
default_version == 1

\* Transaction::to_bytes
to_bytes(tx) ==
    <<tx.version, tx.id, tx.sender, tx.recipient, tx.amount, tx.fee,
      tx.nonce, tx.timestamp>>

\* Transaction::to_bytes_without_signature
to_bytes_without_signature(tx) ==
    <<tx.version, tx.id, tx.sender, tx.recipient, tx.amount, tx.fee,
      tx.nonce, tx.timestamp>>

\* Transaction::new
Transaction_new(id, sender, recipient, amount, fee, nonce, now) ==
    [version |-> default_version, id |-> id, sender |-> sender,
     recipient |-> recipient, amount |-> amount, fee |-> fee,
     nonce |-> nonce, signature |-> None, timestamp |-> now]

\* a reward transaction that pays the system address instead of the miner
new_coinbase_to_system(id, recipient, amount, now) ==
    [version |-> default_version, id |-> id, sender |-> SystemAddress,
     recipient |-> SystemAddress, amount |-> amount, fee |-> 0,
     nonce |-> 0, signature |-> None, timestamp |-> now]

\* Transaction::new_coinbase
new_coinbase(id, recipient, amount, now) ==
    [version |-> default_version, id |-> id, sender |-> SystemAddress,
     recipient |-> recipient, amount |-> amount, fee |-> 0,
     nonce |-> 0, signature |-> None, timestamp |-> now]

\* Transaction::is_coinbase
is_coinbase(tx) == tx.sender = SystemAddress /\ tx.fee = 0 /\ tx.nonce = 0

\* Transaction::total_amount
total_amount(tx) == tx.amount + tx.fee

\* Transaction::verify_signature: Ok(bool) or an error
verify_signature(tx) ==
    IF tx.signature = None
      THEN [ok |-> FALSE, val |-> FALSE, err |-> "NotSigned"]
    ELSE IF ~to_public_key(tx.sender).ok
      THEN [ok |-> FALSE, val |-> FALSE, err |-> "CryptoError"]
    ELSE [ok |-> TRUE,
          val |-> crypto_verify_signature(to_bytes_without_signature(tx),
                                          tx.signature[1],
                                          to_public_key(tx.sender).key),
          err |-> "none"]

\* Transaction::sign, line 162: self.signature = Some(signature) (the caller
\* may also attach any signature directly: the field is public)
with_signature(tx, sig) == [tx EXCEPT !.signature = Some(sig)]

\* a sign that does not compare the wallet's address with the sender
sign_any_wallet(tx, wallet) ==
    IF tx.signature # None
      THEN [ok |-> FALSE, err |-> "AlreadySigned", tx |-> tx]
    ELSE [ok |-> TRUE, err |-> "none",
          tx |-> with_signature(tx, Wallet_sign(wallet, to_bytes(tx)))]

\* Transaction::sign with the wallet whose address is wallet: the result and
\* the transaction it leaves
sign(tx, wallet) ==
    IF tx.signature # None
      THEN [ok |-> FALSE, err |-> "AlreadySigned", tx |-> tx]
    ELSE IF wallet # tx.sender
      THEN [ok |-> FALSE, err |-> "InvalidSenderAddress", tx |-> tx]
    ELSE [ok |-> TRUE, err |-> "none",
          tx |-> with_signature(tx, Wallet_sign(wallet, to_bytes(tx)))]

(* ------------------------------ account.rs ---------------------------- *)
\* Account::new
Account_new(address) ==
    [version |-> default_version, address |-> address, balance |-> 0,
     nonce |-> 0]

\* Account::deposit
deposit(account, amount) ==
    IF amount <= 0
      THEN [ok |-> FALSE, err |-> "InvalidAmount", account |-> account]
      ELSE [ok |-> TRUE, err |-> "none",
            account |-> [account EXCEPT !.balance = @ + amount]]

\* Account::withdraw
withdraw(account, amount) ==
    IF amount <= 0
      THEN [ok |-> FALSE, err |-> "InvalidAmount", account |-> account]
    ELSE IF account.balance < amount
      THEN [ok |-> FALSE, err |-> "InsufficientFunds", account |-> account]
    ELSE [ok |-> TRUE, err |-> "none",
          account |-> [account EXCEPT !.balance = @ - amount]]

\* Account::increment_nonce
increment_nonce(account) == [account EXCEPT !.nonce = @ + 1]

\* Account::has_sufficient_funds
has_sufficient_funds(account, amount) == account.balance >= amount

\* Account::is_valid_nonce
is_valid_nonce(account, nonce) == nonce = account.nonce

\* AccountState::get_account: read-through default, does not insert
get_account(accts, address) ==
    IF address \in DOMAIN accts THEN accts[address] ELSE Account_new(address)

\* AccountState::update_account: insert by the account's own address
update_account(accts, account) ==
    [a \in (DOMAIN accts) \cup {account.address} |->
        IF a = account.address THEN account ELSE accts[a]]

\* a transfer that stores the debited sender before the deposit is tried
transfer_sender_first(accts, from, to, amount, fee, nonce) ==
    LET sender    == get_account(accts, from)
        total     == amount + fee
        recipient == get_account(accts, to)
        w         == withdraw(sender, total)
        d         == deposit(recipient, amount)
        sender2   == increment_nonce(w.account)
    IN  IF ~is_valid_nonce(sender, nonce)
          THEN [ok |-> FALSE, err |-> "InvalidNonce", a |-> sender.nonce,
                b |-> nonce, accounts |-> accts]
        ELSE IF ~has_sufficient_funds(sender, total)
          THEN [ok |-> FALSE, err |-> "InsufficientFunds", a |-> total,
                b |-> sender.balance, accounts |-> accts]
        ELSE IF ~w.ok
          THEN [ok |-> FALSE, err |-> w.err, a |-> total, b |-> sender.balance,
                accounts |-> accts]
        ELSE IF ~d.ok
          THEN [ok |-> FALSE, err |-> d.err, a |-> amount, b |-> 0,
                accounts |-> update_account(accts, sender2)]
        ELSE [ok |-> TRUE, err |-> "none", a |-> 0, b |-> 0,
              accounts |-> update_account(update_account(accts, sender2),
                                          d.account)]

\* AccountState::transfer: the result and the account map it leaves
transfer(accts, from, to, amount, fee, nonce) ==
    LET sender    == get_account(accts, from)
        total     == amount + fee
        recipient == get_account(accts, to)
        w         == withdraw(sender, total)
        d         == deposit(recipient, amount)
        sender2   == increment_nonce(w.account)
    IN  IF ~is_valid_nonce(sender, nonce)
          THEN [ok |-> FALSE, err |-> "InvalidNonce", a |-> sender.nonce,
                b |-> nonce, accounts |-> accts]
        ELSE IF ~has_sufficient_funds(sender, total)
          THEN [ok |-> FALSE, err |-> "InsufficientFunds", a |-> total,
                b |-> sender.balance, accounts |-> accts]
        ELSE IF ~w.ok
          THEN [ok |-> FALSE, err |-> w.err, a |-> total, b |-> sender.balance,
                accounts |-> accts]
        ELSE IF ~d.ok
          THEN [ok |-> FALSE, err |-> d.err, a |-> amount, b |-> 0,
                accounts |-> accts]
        ELSE [ok |-> TRUE, err |-> "none", a |-> 0, b |-> 0,
              accounts |-> update_account(update_account(accts, sender2),
                                          d.account)]

\* a reward credited to a newly built account instead of the stored one
process_mining_reward_fresh(accts, miner, reward) ==
    LET d == deposit(Account_new(miner), reward)
    IN  IF ~d.ok
          THEN [ok |-> FALSE, err |-> d.err, accounts |-> accts]
          ELSE [ok |-> TRUE, err |-> "none",
                accounts |-> update_account(accts, d.account)]

\* AccountState::process_mining_reward
process_mining_reward(accts, miner, reward) ==
    LET d == deposit(get_account(accts, miner), reward)
    IN  IF ~d.ok
          THEN [ok |-> FALSE, err |-> d.err, accounts |-> accts]
          ELSE [ok |-> TRUE, err |-> "none",
                accounts |-> update_account(accts, d.account)]

(* ------------------------------- block.rs ----------------------------- *)
AddrCode(a) == IF a = "A" THEN 1 ELSE IF a = "B" THEN 2 ELSE 0

BytesCode(m) ==
    m[1] + 3 * m[2] + 5 * AddrCode(m[3]) + 7 * AddrCode(m[4]) + 11 * m[5]
    + 13 * m[6] + 17 * m[7] + 19 * m[8]

SigCode(signature) ==
    IF signature = None THEN 0
    ELSE 1 + AddrCode(signature[1].signer) + 2 * BytesCode(signature[1].msg)

\* serde_json of a Transaction inside the hashed block (signature included)
TxCode(tx) == BytesCode(to_bytes(tx)) + 23 * SigCode(tx.signature)

RECURSIVE TxsCode(_)
TxsCode(txs) ==
    IF txs = <<>> THEN 0
    ELSE (Len(txs) + 1) * TxCode(txs[Len(txs)]) + TxsCode(SubSeq(txs, 1, Len(txs) - 1))

RECURSIVE HashNum(_)
HashNum(h) ==
    IF h = <<>> THEN 0
    ELSE h[Len(h)] + HexBase * HashNum(SubSeq(h, 1, Len(h) - 1))

\* Block::calculate_hash: a hex string computed from version, index,
\* timestamp, transactions, proof and previous_hash (never from hash).
\* The mixing function repeats its lowest digit over the first Difficulty
\* positions, so that the proof-of-work loop below ends within HexBase steps.
calculate_hash(block) ==
    LET d    == (block.version + 3 * block.index + 4 * block.timestamp
                 + 7 * block.proof + 11 * HashNum(block.previous_hash)
                 + 13 * TxsCode(block.transactions))
                % (HexBase ^ (HashLen - Difficulty + 1))
        lead == d % HexBase
        tail == d \div HexBase
    IN  [i \in 1..HashLen |->
            IF i <= Difficulty THEN lead
            ELSE (tail \div (HexBase ^ (HashLen - i))) % HexBase]

\* Block::new at clock reading now
Block_new(index, transactions, proof, previous_hash, now) ==
    LET block == [version |-> default_version, index |-> index,
                  timestamp |-> now, transactions |-> transactions,
                  proof |-> proof, previous_hash |-> previous_hash,
                  hash |-> <<>>]
    IN  [block EXCEPT !.hash = calculate_hash(block)]

(* ------------------------------- chain.rs ----------------------------- *)
\* "0".repeat(difficulty)
target == [i \in 1..Difficulty |-> 0]

\* str::starts_with
starts_with(s, prefix) ==
    Len(s) >= Len(prefix) /\ SubSeq(s, 1, Len(prefix)) = prefix

\* Blockchain::proof_of_work: the loop from candidate proof p on; every
\* candidate is built by Block::new, which reads the clock again
RECURSIVE pow_loop(_, _, _, _, _)
pow_loop(index, transactions, previous_hash, p, now) ==
    LET block == Block_new(index, transactions, p, previous_hash, now)
        hash  == calculate_hash(block)
    IN  IF starts_with(hash, target)
          THEN [block EXCEPT !.hash = hash]
          ELSE pow_loop(index, transactions, previous_hash, p + 1, now + 1)

\* a proof of work that returns its first candidate without testing the hash
proof_of_work_unchecked(index, transactions, previous_hash, now) ==
    Block_new(index, transactions, 0, previous_hash, now)

proof_of_work(index, transactions, previous_hash, now) ==
    pow_loop(index, transactions, previous_hash, 0, now)

\* a genesis block found by proof of work instead of built with proof 1
genesis_block_mined == proof_of_work(0, <<>>, <<0>>, 0)

\* Blockchain::create_genesis_block
genesis_block == Block_new(0, <<>>, 1, <<0>>, 0)

\* the first block of the chain taken for the last one
get_last_block_first(ch) == ch[1]

\* Blockchain::get_last_block
get_last_block(ch) == ch[Len(ch)]

\* Blockchain::is_valid
is_valid(ch) ==
    \A i \in 2..Len(ch) :
        /\ ch[i].hash = calculate_hash(ch[i])
        /\ ch[i].previous_hash = ch[i - 1].hash

\* rebuild_account_state, chain.rs 424-438: the transactions of one block
RECURSIVE rebuild_transactions(_, _)
rebuild_transactions(accts, txs) ==
    IF txs = <<>> THEN [ok |-> TRUE, err |-> "none", accounts |-> accts]
    ELSE LET transaction == Head(txs)
             r == IF ~is_coinbase(transaction)
                    THEN transfer(accts, transaction.sender,
                                  transaction.recipient, transaction.amount,
                                  transaction.fee, transaction.nonce)
                    ELSE process_mining_reward(accts, transaction.recipient,
                                               transaction.amount)
         IN  IF r.ok THEN rebuild_transactions(r.accounts, Tail(txs))
             ELSE [ok |-> FALSE, err |-> r.err, accounts |-> r.accounts]

\* Blockchain::rebuild_account_state on account state accts and chain ch
RECURSIVE rebuild_account_state(_, _)
rebuild_account_state(accts, ch) ==
    IF ch = <<>> THEN [ok |-> TRUE, err |-> "none", accounts |-> accts]
    ELSE LET r == rebuild_transactions(accts, Head(ch).transactions)
         IN  IF r.ok THEN rebuild_account_state(r.accounts, Tail(ch))
             ELSE r

\* admission that tests the nonce before the funds
admission_nonce_first(tx, accts) ==
    LET v              == verify_signature(tx)
        sender_account == get_account(accts, tx.sender)
    IN  IF ~is_coinbase(tx) /\ ~v.ok
          THEN [kind |-> v.err, a |-> 0, b |-> 0]
        ELSE IF ~is_coinbase(tx) /\ ~v.val
          THEN [kind |-> "InvalidSignature", a |-> 0, b |-> 0]
        ELSE IF ~is_coinbase(tx) /\ tx.fee < MinimumFee
          THEN [kind |-> "InvalidAmount", a |-> 0, b |-> 0]
        ELSE IF ~is_coinbase(tx)
                /\ ~is_valid_nonce(sender_account, tx.nonce)
          THEN [kind |-> "InvalidNonce", a |-> sender_account.nonce,
                b |-> tx.nonce]
        ELSE IF ~is_coinbase(tx)
                /\ ~has_sufficient_funds(sender_account, total_amount(tx))
          THEN [kind |-> "InsufficientFunds", a |-> total_amount(tx),
                b |-> sender_account.balance]
        ELSE [kind |-> "Ok", a |-> 0, b |-> 0]

\* Blockchain::add_transaction up to the push: the error it returns, or Ok
admission(tx, accts) ==
    LET v              == verify_signature(tx)
        sender_account == get_account(accts, tx.sender)
    IN  IF ~is_coinbase(tx) /\ ~v.ok
          THEN [kind |-> v.err, a |-> 0, b |-> 0]
        ELSE IF ~is_coinbase(tx) /\ ~v.val
          THEN [kind |-> "InvalidSignature", a |-> 0, b |-> 0]
        ELSE IF ~is_coinbase(tx) /\ tx.fee < MinimumFee
          THEN [kind |-> "InvalidAmount", a |-> 0, b |-> 0]
        ELSE IF ~is_coinbase(tx)
                /\ ~has_sufficient_funds(sender_account, total_amount(tx))
          THEN [kind |-> "InsufficientFunds", a |-> total_amount(tx),
                b |-> sender_account.balance]
        ELSE IF ~is_coinbase(tx)
                /\ ~is_valid_nonce(sender_account, tx.nonce)
          THEN [kind |-> "InvalidNonce", a |-> sender_account.nonce,
                b |-> tx.nonce]
        ELSE [kind |-> "Ok", a |-> 0, b |-> 0]

(* --------------------------- the state machine ------------------------ *)
VARIABLES
    chain,      \* Blockchain.chain: Vec<Block>
    pending,    \* Blockchain.pending_transactions: Vec<Transaction>
    accounts,   \* AccountState.accounts: DashMap<Address, Account>
    mlock,      \* holder of the pending_transactions mutex, 0 when free
    clock,      \* next reading of Utc::now()
    pc,         \* per thread: where it is in add_transaction / mine_block
    cur,        \* per thread: arguments and locals of the running call, and
                \* for mine_block the accounts, mempool and chain it found
    returned,   \* the value returned by the step just taken, if it returned
    nAdds,      \* add_transaction calls that passed the checks
    nMines,     \* mine_block calls started
    nFunds,     \* fundings done
    funded,     \* sum funded through update_account
    submitted,  \* the transaction given to the add_transaction call that
                \* was just checked, where calls are recorded
    chlock,     \* holder of the chain mutex, 0 when free, where the
                \* acquisitions of the locks are steps of their own
    storage     \* Blockchain.storage: None, or the trees of the sled database

vars == <<chain, pending, accounts, mlock, clock, pc, cur, returned,
          nAdds, nMines, nFunds, funded, submitted, chlock, storage>>

NoCall   == [op |-> "none"]
NoReturn == [op |-> "none", thread |-> 0, kind |-> "none", a |-> 0, b |-> 0]

\* Blockchain::new
Init ==
    /\ chain = <<genesis_block>>
    /\ pending = <<>>
    /\ accounts = <<>>
    /\ mlock = 0
    /\ clock = 1
    /\ pc = [t \in Threads |-> "idle"]
    /\ cur = [t \in Threads |-> NoCall]
    /\ returned = NoReturn
    /\ nAdds = 0
    /\ nMines = 0
    /\ nFunds = 0
    /\ funded = 0
    /\ submitted = None
    /\ chlock = 0
    /\ storage = None

\* transactions a client has seen admitted and can submit again
KnownTxs ==
    {pending[i] : i \in DOMAIN pending}
    \cup UNION {{chain[k].transactions[i] : i \in DOMAIN chain[k].transactions}
                : k \in DOMAIN chain}

\* Transaction::new by a client now, with the next fresh id
ClientTx(s, r, m, f, n) == Transaction_new(nAdds + 1, s, r, m, f, n, clock)

\* the transaction carrying the signature of wallet w over its bytes
Signed(tx, w) == with_signature(tx, Wallet_sign(w, to_bytes(tx)))

\* the transactions that differ from tx in exactly one of sender, recipient,
\* amount, fee and nonce
OneFieldChanged(tx) ==
    {[tx EXCEPT !.sender = v] : v \in Addresses \ {tx.sender}}
    \cup {[tx EXCEPT !.recipient = v] : v \in Wallets \ {tx.recipient}}
    \cup {[tx EXCEPT !.amount = v] : v \in Amounts \ {tx.amount}}
    \cup {[tx EXCEPT !.fee = v] : v \in Fees \ {tx.fee}}
    \cup {[tx EXCEPT !.nonce = v] : v \in Nonces \ {tx.nonce}}

\* funding as the tests and the test wallet do it: get_account, deposit,
\* update_account, before any transaction is submitted
Fund(address, amount) ==
    /\ nAdds = 0
    /\ nFunds < MaxFunds
    /\ \A t \in Threads : pc[t] = "idle"
    /\ LET d == deposit(get_account(accounts, address), amount)
       IN  /\ d.ok
           /\ accounts' = update_account(accounts, d.account)
    /\ funded' = funded + amount
    /\ nFunds' = nFunds + 1
    /\ returned' = NoReturn
    /\ UNCHANGED <<chain, pending, mlock, clock, pc, cur, nAdds, nMines>>

\* add_transaction, chain.rs 156-195: the checks, with the one read of the
\* sender's account; an error returns at once
AddTransaction(t, tx) ==
    /\ pc[t] = "idle"
    /\ nAdds < MaxAdds
    /\ nAdds + nMines < MaxCalls
    /\ LET r == admission(tx, accounts)
       IN  IF r.kind = "Ok"
             THEN /\ pc' = [pc EXCEPT ![t] = "add_push"]
                  /\ cur' = [cur EXCEPT ![t] = [op |-> "add", tx |-> tx]]
                  /\ returned' = NoReturn
                  /\ nAdds' = nAdds + 1
             ELSE /\ pc' = pc
                  /\ cur' = cur
                  /\ returned' = [op |-> "add", thread |-> t,
                                  kind |-> r.kind, a |-> r.a, b |-> r.b]
                  /\ nAdds' = nAdds
    /\ UNCHANGED <<chain, pending, accounts, mlock, clock, nMines, nFunds,
                   funded>>

\* a push that also reserves the sender's funds
AddPush_debiting(t) ==
    /\ pc[t] = "add_push"
    /\ mlock = 0
    /\ pending' = Append(pending, cur[t].tx)
    /\ accounts' = update_account(accounts,
                     withdraw(get_account(accounts, cur[t].tx.sender),
                              total_amount(cur[t].tx)).account)
    /\ pc' = [pc EXCEPT ![t] = "add_ret"]
    /\ returned' = NoReturn
    /\ UNCHANGED <<chain, mlock, clock, cur, nAdds, nMines, nFunds, funded>>

\* add_transaction, chain.rs 198: lock the mempool, push, unlock
AddPush(t) ==
    /\ pc[t] = "add_push"
    /\ mlock = 0
    /\ pending' = Append(pending, cur[t].tx)
    /\ pc' = [pc EXCEPT ![t] = "add_ret"]
    /\ returned' = NoReturn
    /\ UNCHANGED <<chain, accounts, mlock, clock, cur, nAdds, nMines,
                   nFunds, funded>>

\* add_transaction, chain.rs 200: Ok(get_last_block().index + 1)
AddReturn(t) ==
    /\ pc[t] = "add_ret"
    /\ returned' = [op |-> "add", thread |-> t, kind |-> "Ok",
                    a |-> get_last_block(chain).index + 1, b |-> 0]
    /\ pc' = [pc EXCEPT ![t] = "idle"]
    /\ cur' = [cur EXCEPT ![t] = NoCall]
    /\ UNCHANGED <<chain, pending, accounts, mlock, clock, nAdds, nMines,
                   nFunds, funded>>

\* mine_block, chain.rs 214-223: build the reward transaction, lock the
\* mempool (the guard lives until the function returns)
MineBlock(t, miner) ==
    /\ pc[t] = "idle"
    /\ nMines < MaxMines
    /\ nAdds + nMines < MaxCalls
    /\ mlock = 0
    /\ mlock' = t
    /\ nMines' = nMines + 1
    /\ pc' = [pc EXCEPT ![t] = "mine_loop"]
    /\ cur' = [cur EXCEPT ![t] =
                 [op |-> "mine", miner |-> miner, i |-> 1,
                  reward_transaction |->
                      new_coinbase(MaxAdds + nMines + 1, miner, MiningReward,
                                   clock),
                  accounts0 |-> accounts, pending0 |-> pending,
                  chain0 |-> chain]]
    /\ returned' = NoReturn
    /\ UNCHANGED <<chain, pending, accounts, clock, nAdds, nFunds, funded>>

\* an error return that takes the transaction that failed out of the mempool
mine_abort_dropping(t, err) ==
    /\ returned' = [op |-> "mine", thread |-> t, kind |-> err.err,
                    a |-> err.a, b |-> err.b]
    /\ mlock' = 0
    /\ pc' = [pc EXCEPT ![t] = "idle"]
    /\ cur' = [cur EXCEPT ![t] = NoCall]
    /\ pending' = SubSeq(pending, 1, cur[t].i - 1)
                    \o SubSeq(pending, cur[t].i + 1, Len(pending))
    /\ UNCHANGED <<chain, clock, nAdds, nMines, nFunds, funded>>

\* an error return that has already taken the transactions out of the mempool
mine_abort_clearing(t, err) ==
    /\ returned' = [op |-> "mine", thread |-> t, kind |-> err.err,
                    a |-> err.a, b |-> err.b]
    /\ mlock' = 0
    /\ pc' = [pc EXCEPT ![t] = "idle"]
    /\ cur' = [cur EXCEPT ![t] = NoCall]
    /\ pending' = <<>>
    /\ UNCHANGED <<chain, clock, nAdds, nMines, nFunds, funded>>

\* an error return that takes the last block off the chain
mine_abort_truncating(t, err) ==
    /\ returned' = [op |-> "mine", thread |-> t, kind |-> err.err,
                    a |-> err.a, b |-> err.b]
    /\ mlock' = 0
    /\ pc' = [pc EXCEPT ![t] = "idle"]
    /\ cur' = [cur EXCEPT ![t] = NoCall]
    /\ chain' = SubSeq(chain, 1, Len(chain) - 1)
    /\ UNCHANGED <<pending, clock, nAdds, nMines, nFunds, funded>>

\* the error return of mine_block: `?` drops the mempool guard
mine_abort(t, err) ==
    /\ returned' = [op |-> "mine", thread |-> t, kind |-> err.err,
                    a |-> err.a, b |-> err.b]
    /\ mlock' = 0
    /\ pc' = [pc EXCEPT ![t] = "idle"]
    /\ cur' = [cur EXCEPT ![t] = NoCall]
    /\ UNCHANGED <<chain, pending, clock, nAdds, nMines, nFunds, funded>>

\* a loop iteration that pays a coinbase-shaped mempool transaction out
MineTransfer_crediting(t) ==
    /\ pc[t] = "mine_loop"
    /\ cur[t].i <= Len(pending)
    /\ LET transaction == pending[cur[t].i]
           r == IF is_coinbase(transaction)
                  THEN process_mining_reward(accounts, transaction.recipient,
                                             transaction.amount)
                  ELSE transfer(accounts, transaction.sender,
                                transaction.recipient, transaction.amount,
                                transaction.fee, transaction.nonce)
       IN  IF r.ok
             THEN /\ accounts' = r.accounts
                  /\ cur' = [cur EXCEPT ![t].i = @ + 1]
                  /\ returned' = NoReturn
                  /\ UNCHANGED <<chain, pending, mlock, clock, pc,
                                 nAdds, nMines, nFunds, funded>>
           ELSE /\ accounts' = r.accounts
                /\ mine_abort(t, [err |-> r.err, a |-> 0, b |-> 0])

\* mine_block, chain.rs 226-237: one iteration of the transfer loop
MineTransfer(t) ==
    /\ pc[t] = "mine_loop"
    /\ cur[t].i <= Len(pending)
    /\ LET transaction == pending[cur[t].i]
           r == transfer(accounts, transaction.sender, transaction.recipient,
                         transaction.amount, transaction.fee,
                         transaction.nonce)
       IN  IF is_coinbase(transaction)
             THEN /\ cur' = [cur EXCEPT ![t].i = @ + 1]
                  /\ returned' = NoReturn
                  /\ UNCHANGED <<chain, pending, accounts, mlock, clock, pc,
                                 nAdds, nMines, nFunds, funded>>
           ELSE IF r.ok
             THEN /\ accounts' = r.accounts
                  /\ cur' = [cur EXCEPT ![t].i = @ + 1]
                  /\ returned' = NoReturn
                  /\ UNCHANGED <<chain, pending, mlock, clock, pc,
                                 nAdds, nMines, nFunds, funded>>
           ELSE /\ accounts' = r.accounts
                /\ mine_abort(t, r)

\* a reward step that leaves the crediting of the reward for later
MineReward_uncredited(t) ==
    /\ pc[t] = "mine_loop"
    /\ cur[t].i > Len(pending)
    /\ pending' = <<>>
    /\ cur' = [cur EXCEPT ![t] =
                 [op |-> "mine", miner |-> cur[t].miner,
                  accounts0 |-> cur[t].accounts0,
                  pending0 |-> cur[t].pending0,
                  chain0 |-> cur[t].chain0,
                  transactions |->
                      Append(pending, cur[t].reward_transaction)]]
    /\ pc' = [pc EXCEPT ![t] = "mine_pow"]
    /\ returned' = NoReturn
    /\ UNCHANGED <<chain, accounts, mlock, clock, nAdds, nMines,
                   nFunds, funded>>

\* a reward step that puts the reward transaction in front of the mempool's
MineReward_coinbase_first(t) ==
    /\ pc[t] = "mine_loop"
    /\ cur[t].i > Len(pending)
    /\ LET r == process_mining_reward(accounts, cur[t].miner, MiningReward)
       IN  IF r.ok
             THEN /\ accounts' = r.accounts
                  /\ pending' = <<>>
                  /\ cur' = [cur EXCEPT ![t] =
                               [op |-> "mine", miner |-> cur[t].miner,
                                accounts0 |-> cur[t].accounts0,
                                pending0 |-> cur[t].pending0,
                                chain0 |-> cur[t].chain0,
                                transactions |->
                                    <<cur[t].reward_transaction>>
                                        \o pending]]
                  /\ pc' = [pc EXCEPT ![t] = "mine_pow"]
                  /\ returned' = NoReturn
                  /\ UNCHANGED <<chain, mlock, clock, nAdds, nMines,
                                 nFunds, funded>>
             ELSE /\ accounts' = r.accounts
                  /\ mine_abort(t, [err |-> r.err, a |-> MiningReward,
                                    b |-> 0])

\* mine_block, chain.rs 240-247: credit the reward, push the reward
\* transaction, clone the mempool and clear it
MineReward(t) ==
    /\ pc[t] = "mine_loop"
    /\ cur[t].i > Len(pending)
    /\ LET r == process_mining_reward(accounts, cur[t].miner, MiningReward)
       IN  IF r.ok
             THEN /\ accounts' = r.accounts
                  /\ pending' = <<>>
                  /\ cur' = [cur EXCEPT ![t] =
                               [op |-> "mine", miner |-> cur[t].miner,
                                accounts0 |-> cur[t].accounts0,
                                pending0 |-> cur[t].pending0,
                                chain0 |-> cur[t].chain0,
                                transactions |->
                                    Append(pending,
                                           cur[t].reward_transaction)]]
                  /\ pc' = [pc EXCEPT ![t] = "mine_pow"]
                  /\ returned' = NoReturn
                  /\ UNCHANGED <<chain, mlock, clock, nAdds, nMines,
                                 nFunds, funded>>
             ELSE /\ accounts' = r.accounts
                  /\ mine_abort(t, [err |-> r.err, a |-> MiningReward,
                                    b |-> 0])

\* mine_block, chain.rs 250-283: proof of work on top of the last block,
\* push to the chain, return the block (no storage configured)
MineAppend(t) ==
    /\ pc[t] = "mine_pow"
    /\ LET last_block == get_last_block(chain)
           new_block  == proof_of_work(last_block.index + 1,
                                       cur[t].transactions,
                                       last_block.hash, clock)
       IN  /\ chain' = Append(chain, new_block)
           /\ clock' = new_block.timestamp + 1
           /\ returned' = [op |-> "mine", thread |-> t, kind |-> "Ok",
                           a |-> new_block.index, b |-> 0]
    /\ mlock' = 0
    /\ pc' = [pc EXCEPT ![t] = "idle"]
    /\ cur' = [cur EXCEPT ![t] = NoCall]
    /\ UNCHANGED <<pending, accounts, nAdds, nMines, nFunds, funded>>

\* a call of add_transaction; rec tells whether the caller's transaction is
\* recorded
Call(t, tx, rec) ==
    /\ AddTransaction(t, tx)
    /\ submitted' = IF rec THEN Some(tx) ELSE submitted
    /\ UNCHANGED <<chlock, storage>>

\* a client submits again a transaction it has seen admitted
Resubmit(t, rec) == \E tx \in KnownTxs : Call(t, tx, rec)

\* an honest wallet submits: Transaction::new with the minimum fee, signed by
\* Transaction::sign with the sender's own wallet
SubmitWallet(t, rec) ==
    \E s \in Wallets, r \in Wallets, n \in Nonces :
        Call(t, Signed(ClientTx(s, r, MaxAmount, MinimumFee, n), s), rec)

\* any client submits: any sender, recipient, amount, fee and nonce, unsigned
SubmitUnsigned(t, rec) ==
    \E s \in Addresses, r \in Wallets, m \in Amounts, f \in Fees, n \in Nonces :
        Call(t, ClientTx(s, r, m, f, n), rec)

\* ... or carrying the signature of any wallet over its bytes (a
\* coinbase-shaped transaction is submitted unsigned)
SubmitSigned(t, rec) ==
    \E s \in Addresses, r \in Wallets, m \in Amounts, f \in Fees, n \in Nonces,
       w \in Wallets :
        /\ ~is_coinbase(ClientTx(s, r, m, f, n))
        /\ Call(t, Signed(ClientTx(s, r, m, f, n), w), rec)

\* ... or signed by the sender's wallet and changed in one field afterwards
SubmitChanged(t, rec) ==
    \E s \in Wallets, r \in Wallets, m \in Amounts, f \in Fees, n \in Nonces :
        \E tx \in OneFieldChanged(Signed(ClientTx(s, r, m, f, n), s)) :
            /\ ~is_coinbase(tx)
            /\ Call(t, tx, rec)

\* the steps of funding, of mine_block and of a running add_transaction
Step(T) ==
    \/ \E a \in Wallets, m \in FundAmounts : Fund(a, m)
    \/ \E t \in T : AddPush(t)
    \/ \E t \in T : AddReturn(t)
    \/ \E t \in T, miner \in Wallets : MineBlock(t, miner)
    \/ \E t \in T : MineTransfer(t)
    \/ \E t \in T : MineReward(t)
    \/ \E t \in T : MineAppend(t)

\* concurrent request handlers serving honest wallets and replays
Next ==
    \/ Step(Threads) /\ UNCHANGED <<submitted, chlock, storage>>
    \/ \E t \in Threads : SubmitWallet(t, FALSE)
    \/ \E t \in Threads : Resubmit(t, FALSE)

Spec == Init /\ [][Next]_vars

\* one caller at a time, submitting arbitrary transactions
SeqNext ==
    \/ Step({1}) /\ UNCHANGED <<submitted, chlock, storage>>
    \/ SubmitUnsigned(1, FALSE)
    \/ SubmitSigned(1, FALSE)
    \/ Resubmit(1, FALSE)

SeqSpec == Init /\ [][SeqNext]_vars

(* add_transaction as a function of the transaction and the sender's        *)
(* account: the account of wallet A is drawn from the accounts funding and  *)
(* mining produce, honest wallets fill the mempool, and then one call is    *)
(* made whose transaction is recorded.                                      *)
MaxBalance == MaxAmount + MinimumFee + 1

StoredAccounts(a) ==
    {[version |-> default_version, address |-> a, balance |-> b, nonce |-> n] :
        b \in 0..MaxBalance, n \in Nonces} \ {Account_new(a)}

AdmitInit ==
    /\ chain = <<genesis_block>>
    /\ pending = <<>>
    /\ accounts \in {<<>>} \cup {update_account(<<>>, x) : x \in StoredAccounts("A")}
    /\ mlock = 0
    /\ clock = 1
    /\ pc = [t \in Threads |-> "idle"]
    /\ cur = [t \in Threads |-> NoCall]
    /\ returned = NoReturn
    /\ nAdds = 0
    /\ nMines = 0
    /\ nFunds = 0
    /\ funded = 0
    /\ submitted = None
    /\ chlock = 0
    /\ storage = None

AdmitNext ==
    \/ submitted = None /\ SubmitWallet(1, FALSE)
    \/ submitted = None /\ SubmitUnsigned(1, TRUE)
    \/ submitted = None /\ SubmitSigned(1, TRUE)
    \/ submitted = None /\ SubmitChanged(1, TRUE)
    \/ AddPush(1) /\ UNCHANGED <<submitted, chlock, storage>>
    \/ AddReturn(1) /\ UNCHANGED <<submitted, chlock, storage>>

AdmitSpec == AdmitInit /\ [][AdmitNext]_vars

(* AccountState alone (account.rs 178-270): every thread makes one call of  *)
(* transfer, process_mining_reward, update_account or get_account on the    *)
(* shared map; a                                                            *)
(* step is one access to the DashMap (get_account or update_account)        *)
(* together with the local computation that follows it.                     *)
FundedAccounts ==
    update_account(<<>>, [Account_new("A") EXCEPT !.balance = MaxBalance])

AccountCalls ==
    {[op |-> "transfer", from |-> f, to |-> r, amount |-> MaxAmount,
      fee |-> MinimumFee, nonce |-> n] :
        f \in Wallets, r \in Wallets, n \in Nonces}
    \cup {[op |-> "process_mining_reward", miner |-> m,
           reward |-> MiningReward] : m \in Wallets}
    \cup {[op |-> "update_account",
           account |-> [Account_new(a) EXCEPT
                          !.balance = MaxAmount + MinimumFee, !.nonce = n]] :
            a \in Wallets, n \in Nonces}
    \cup {[op |-> "get_account", address |-> a] : a \in Wallets}

AcctInit ==
    /\ chain = <<genesis_block>>
    /\ pending = <<>>
    /\ accounts = FundedAccounts
    /\ mlock = 0
    /\ clock = 1
    /\ pc = [t \in Threads |-> "acct_call"]
    /\ cur \in [Threads -> {[op |-> "acct", call |-> c,
                             sender |-> Account_new("0"),
                             recipient |-> Account_new("0")] :
                                c \in AccountCalls}]
    /\ returned = NoReturn
    /\ nAdds = 0
    /\ nMines = 0
    /\ nFunds = 0
    /\ funded = 0
    /\ submitted = None
    /\ chlock = 0
    /\ storage = None

\* the return of an AccountState call
acct_return(t, kind) ==
    /\ returned' = [op |-> cur[t].call.op, thread |-> t, kind |-> kind,
                    a |-> 0, b |-> 0]
    /\ pc' = [pc EXCEPT ![t] = "acct_done"]

\* transfer, account.rs 217-234: get_account(from), nonce and funds checks
TransferGetSender(t) ==
    /\ pc[t] = "acct_call"
    /\ cur[t].call.op = "transfer"
    /\ LET c      == cur[t].call
           sender == get_account(accounts, c.from)
       IN  IF ~is_valid_nonce(sender, c.nonce)
             THEN acct_return(t, "InvalidNonce") /\ cur' = cur
           ELSE IF ~has_sufficient_funds(sender, c.amount + c.fee)
             THEN acct_return(t, "InsufficientFunds") /\ cur' = cur
           ELSE /\ cur' = [cur EXCEPT ![t].sender = sender]
                /\ pc' = [pc EXCEPT ![t] = "tr_get_recipient"]
                /\ returned' = NoReturn
    /\ UNCHANGED accounts

\* transfer, account.rs 237-246: get_account(to), withdraw, deposit,
\* increment_nonce on the two local copies
TransferGetRecipient(t) ==
    /\ pc[t] = "tr_get_recipient"
    /\ LET c         == cur[t].call
           recipient == get_account(accounts, c.to)
           w         == withdraw(cur[t].sender, c.amount + c.fee)
           d         == deposit(recipient, c.amount)
       IN  IF ~w.ok THEN acct_return(t, w.err) /\ cur' = cur
           ELSE IF ~d.ok THEN acct_return(t, d.err) /\ cur' = cur
           ELSE /\ cur' = [cur EXCEPT
                             ![t].sender = increment_nonce(w.account),
                             ![t].recipient = d.account]
                /\ pc' = [pc EXCEPT ![t] = "tr_put_sender"]
                /\ returned' = NoReturn
    /\ UNCHANGED accounts

\* transfer, account.rs 249: update_account(sender)
TransferPutSender(t) ==
    /\ pc[t] = "tr_put_sender"
    /\ accounts' = update_account(accounts, cur[t].sender)
    /\ pc' = [pc EXCEPT ![t] = "tr_put_recipient"]
    /\ returned' = NoReturn
    /\ UNCHANGED cur

\* transfer, account.rs 250-252: update_account(recipient), Ok(())
TransferPutRecipient(t) ==
    /\ pc[t] = "tr_put_recipient"
    /\ accounts' = update_account(accounts, cur[t].recipient)
    /\ acct_return(t, "Ok")
    /\ UNCHANGED cur

\* process_mining_reward, account.rs 266-267: get_account(miner), deposit
RewardGet(t) ==
    /\ pc[t] = "acct_call"
    /\ cur[t].call.op = "process_mining_reward"
    /\ LET d == deposit(get_account(accounts, cur[t].call.miner),
                        cur[t].call.reward)
       IN  IF ~d.ok THEN acct_return(t, d.err) /\ cur' = cur
           ELSE /\ cur' = [cur EXCEPT ![t].recipient = d.account]
                /\ pc' = [pc EXCEPT ![t] = "rw_put"]
                /\ returned' = NoReturn
    /\ UNCHANGED accounts

\* process_mining_reward, account.rs 268-269: update_account(account), Ok(())
RewardPut(t) ==
    /\ pc[t] = "rw_put"
    /\ accounts' = update_account(accounts, cur[t].recipient)
    /\ acct_return(t, "Ok")
    /\ UNCHANGED cur

\* AccountState::update_account called on its own (one insert into the map)
UpdateAccount(t) ==
    /\ pc[t] = "acct_call"
    /\ cur[t].call.op = "update_account"
    /\ accounts' = update_account(accounts, cur[t].call.account)
    /\ acct_return(t, "Ok")
    /\ UNCHANGED cur

\* a lookup that stores the default account it builds for an unknown address
GetAccount_inserting(t) ==
    /\ pc[t] = "acct_call"
    /\ cur[t].call.op = "get_account"
    /\ LET account == get_account(accounts, cur[t].call.address)
       IN  /\ returned' = [op |-> "get_account", thread |-> t, kind |-> "Ok",
                           a |-> account.balance, b |-> account.nonce]
           /\ accounts' = update_account(accounts, account)
    /\ pc' = [pc EXCEPT ![t] = "acct_done"]
    /\ UNCHANGED cur

\* AccountState::get_account called on its own: the balance and the nonce of
\* the account it returns
GetAccount(t) ==
    /\ pc[t] = "acct_call"
    /\ cur[t].call.op = "get_account"
    /\ LET account == get_account(accounts, cur[t].call.address)
       IN  /\ returned' = [op |-> "get_account", thread |-> t, kind |-> "Ok",
                           a |-> account.balance, b |-> account.nonce]
           /\ accounts' = accounts
    /\ pc' = [pc EXCEPT ![t] = "acct_done"]
    /\ UNCHANGED cur

AcctNext ==
    /\ \/ \E t \in Threads : TransferGetSender(t)
       \/ \E t \in Threads : TransferGetRecipient(t)
       \/ \E t \in Threads : TransferPutSender(t)
       \/ \E t \in Threads : TransferPutRecipient(t)
       \/ \E t \in Threads : RewardGet(t)
       \/ \E t \in Threads : RewardPut(t)
       \/ \E t \in Threads : UpdateAccount(t)
       \/ \E t \in Threads : GetAccount(t)
    /\ UNCHANGED <<chain, pending, mlock, clock, nAdds, nMines, nFunds,
                   funded, submitted, chlock, storage>>

AcctSpec == AcctInit /\ [][AcctNext]_vars

(* The two mutexes of Blockchain with every acquisition as a step of its    *)
(* own: a thread at a lock() waits until the mutex is free.  mine_block     *)
(* takes the mempool mutex on entry (chain.rs 223) and keeps it until it    *)
(* returns; get_last_block, get_chain, is_valid and the push of the new     *)
(* block take the chain mutex for one statement or one function body.       *)
ChainReads == {"get_chain", "get_last_block", "is_valid"}

\* add_transaction, chain.rs 198: pending_transactions.lock()
LockAddLock(t) ==
    /\ pc[t] = "add_push"
    /\ mlock = 0
    /\ mlock' = t
    /\ pc' = [pc EXCEPT ![t] = "add_pushing"]
    /\ returned' = NoReturn
    /\ UNCHANGED <<chain, pending, accounts, clock, cur, nAdds, nMines,
                   nFunds, funded, submitted, chlock, storage>>

\* add_transaction, chain.rs 198: push, the guard is dropped with the statement
LockAddPush(t) ==
    /\ pc[t] = "add_pushing"
    /\ pending' = Append(pending, cur[t].tx)
    /\ mlock' = 0
    /\ pc' = [pc EXCEPT ![t] = "add_ret"]
    /\ returned' = NoReturn
    /\ UNCHANGED <<chain, accounts, clock, cur, nAdds, nMines, nFunds,
                   funded, submitted, chlock, storage>>

\* add_transaction, chain.rs 200: get_last_block takes the chain mutex
LockAddLast(t) ==
    /\ pc[t] = "add_ret"
    /\ chlock = 0
    /\ chlock' = t
    /\ pc' = [pc EXCEPT ![t] = "add_last"]
    /\ returned' = NoReturn
    /\ UNCHANGED <<chain, pending, accounts, mlock, clock, cur, nAdds,
                   nMines, nFunds, funded, submitted, storage>>

\* add_transaction, chain.rs 200: Ok(last.index + 1), chain mutex released
LockAddReturn(t) ==
    /\ pc[t] = "add_last"
    /\ returned' = [op |-> "add", thread |-> t, kind |-> "Ok",
                    a |-> get_last_block(chain).index + 1, b |-> 0]
    /\ chlock' = 0
    /\ pc' = [pc EXCEPT ![t] = "idle"]
    /\ cur' = [cur EXCEPT ![t] = NoCall]
    /\ UNCHANGED <<chain, pending, accounts, mlock, clock, nAdds, nMines,
                   nFunds, funded, submitted, storage>>

\* mine_block, chain.rs 250: get_last_block takes the chain mutex
LockMineLast(t) ==
    /\ pc[t] = "mine_pow"
    /\ chlock = 0
    /\ chlock' = t
    /\ pc' = [pc EXCEPT ![t] = "mine_last"]
    /\ returned' = NoReturn
    /\ UNCHANGED <<chain, pending, accounts, mlock, clock, cur, nAdds,
                   nMines, nFunds, funded, submitted, storage>>

\* mine_block, chain.rs 250-257: the last block is cloned, the chain mutex
\* released, and the proof of work runs on the clone
LockMinePow(t) ==
    /\ pc[t] = "mine_last"
    /\ LET last_block == get_last_block(chain)
           new_block  == proof_of_work(last_block.index + 1,
                                       cur[t].transactions,
                                       last_block.hash, clock)
       IN  /\ cur' = [cur EXCEPT ![t] =
                        [op |-> "mine", miner |-> cur[t].miner,
                         new_block |-> new_block]]
           /\ clock' = new_block.timestamp + 1
    /\ chlock' = 0
    /\ pc' = [pc EXCEPT ![t] = "mine_push"]
    /\ returned' = NoReturn
    /\ UNCHANGED <<chain, pending, accounts, mlock, nAdds, nMines, nFunds,
                   funded, submitted, storage>>

\* mine_block, chain.rs 260: chain.lock()
LockMineChain(t) ==
    /\ pc[t] = "mine_push"
    /\ chlock = 0
    /\ chlock' = t
    /\ pc' = [pc EXCEPT ![t] = "mine_pushing"]
    /\ returned' = NoReturn
    /\ UNCHANGED <<chain, pending, accounts, mlock, clock, cur, nAdds,
                   nMines, nFunds, funded, submitted, storage>>

\* mine_block, chain.rs 260-283: push, chain mutex released, Ok(new_block);
\* the return drops the mempool guard (no storage configured)
LockMineAppend(t) ==
    /\ pc[t] = "mine_pushing"
    /\ chain' = Append(chain, cur[t].new_block)
    /\ returned' = [op |-> "mine", thread |-> t, kind |-> "Ok",
                    a |-> cur[t].new_block.index, b |-> 0]
    /\ chlock' = 0
    /\ mlock' = 0
    /\ pc' = [pc EXCEPT ![t] = "idle"]
    /\ cur' = [cur EXCEPT ![t] = NoCall]
    /\ UNCHANGED <<pending, accounts, clock, nAdds, nMines, nFunds, funded,
                   submitted, storage>>

\* get_chain (chain.rs 322), get_last_block (142) and is_valid (349):
\* chain.lock()
ReadChainLock(t, op) ==
    /\ pc[t] = "idle"
    /\ chlock = 0
    /\ chlock' = t
    /\ pc' = [pc EXCEPT ![t] = "read_chain"]
    /\ cur' = [cur EXCEPT ![t] = [op |-> op]]
    /\ returned' = NoReturn
    /\ UNCHANGED <<chain, pending, accounts, mlock, clock, nAdds, nMines,
                   nFunds, funded, submitted, storage>>

\* a reader of the chain that goes on to take the mempool mutex while it
\* still holds the chain mutex
ReadChainThenPending(t) ==
    /\ pc[t] = "read_chain"
    /\ mlock = 0
    /\ mlock' = t
    /\ pc' = [pc EXCEPT ![t] = "read_pending"]
    /\ returned' = NoReturn
    /\ UNCHANGED <<chain, pending, accounts, clock, cur, nAdds, nMines,
                   nFunds, funded, submitted, chlock, storage>>

\* ... the body under the chain mutex and the return that releases it
ReadChainReturn(t) ==
    /\ pc[t] = "read_chain"
    /\ returned' = [op |-> cur[t].op, thread |-> t, kind |-> "Ok",
                    a |-> IF cur[t].op = "get_chain" THEN Len(chain)
                          ELSE IF cur[t].op = "get_last_block"
                            THEN get_last_block(chain).index
                          ELSE IF is_valid(chain) THEN 1 ELSE 0,
                    b |-> 0]
    /\ chlock' = 0
    /\ pc' = [pc EXCEPT ![t] = "idle"]
    /\ cur' = [cur EXCEPT ![t] = NoCall]
    /\ UNCHANGED <<chain, pending, accounts, mlock, clock, nAdds, nMines,
                   nFunds, funded, submitted, storage>>

\* get_pending_transactions, chain.rs 331: pending_transactions.lock()
ReadPendingLock(t) ==
    /\ pc[t] = "idle"
    /\ mlock = 0
    /\ mlock' = t
    /\ pc' = [pc EXCEPT ![t] = "read_pending"]
    /\ cur' = [cur EXCEPT ![t] = [op |-> "get_pending_transactions"]]
    /\ returned' = NoReturn
    /\ UNCHANGED <<chain, pending, accounts, clock, nAdds, nMines, nFunds,
                   funded, submitted, chlock, storage>>

\* ... clone and return, the guard is dropped
ReadPendingReturn(t) ==
    /\ pc[t] = "read_pending"
    /\ returned' = [op |-> cur[t].op, thread |-> t, kind |-> "Ok",
                    a |-> Len(pending), b |-> 0]
    /\ mlock' = 0
    /\ pc' = [pc EXCEPT ![t] = "idle"]
    /\ cur' = [cur EXCEPT ![t] = NoCall]
    /\ UNCHANGED <<chain, pending, accounts, clock, nAdds, nMines, nFunds,
                   funded, submitted, chlock, storage>>

\* the steps a thread inside a call can take
LockRunning(t) ==
    \/ LockAddLock(t)
    \/ LockAddPush(t)
    \/ LockAddLast(t)
    \/ LockAddReturn(t)
    \/ MineTransfer(t) /\ UNCHANGED <<submitted, chlock, storage>>
    \/ MineReward(t) /\ UNCHANGED <<submitted, chlock, storage>>
    \/ LockMineLast(t)
    \/ LockMinePow(t)
    \/ LockMineChain(t)
    \/ LockMineAppend(t)
    \/ ReadChainReturn(t)
    \/ ReadPendingReturn(t)

LockNext ==
    \/ /\ \E a \in Wallets, m \in FundAmounts : Fund(a, m)
       /\ UNCHANGED <<submitted, chlock, storage>>
    \/ \E t \in Threads : SubmitWallet(t, FALSE)
    \/ /\ \E t \in Threads, miner \in Wallets : MineBlock(t, miner)
       /\ UNCHANGED <<submitted, chlock, storage>>
    \/ \E t \in Threads, op \in ChainReads : ReadChainLock(t, op)
    \/ \E t \in Threads : ReadPendingLock(t)
    \/ \E t \in Threads : LockRunning(t)

LockSpec == Init /\ [][LockNext]_vars

(* ------------------------------ storage.rs ---------------------------- *)
(* A sled tree is a map from keys to stored bytes.  bincode writes the      *)
(* fields of a value one after the other with no names and no marks: a      *)
(* number as itself, a string as its length followed by its bytes, an       *)
(* Option as the tag 0, or the tag 1 followed by the value, and a Vec as    *)
(* its length followed by its elements.  The model keeps one token per      *)
(* field and, of the string lengths, the one of the timestamp, which is     *)
(* what the reader finds where it looks for the tag of a signature that     *)
(* `skip_serializing_if = "Option::is_none"` left out.                      *)
RFC3339Len == 30    \* length of the timestamp string chrono writes

EmptyTree == <<>>

\* bytes bincode cannot read as any value (a cut-off entry)
Unreadable == <<>>

\* bincode::serialize of a Transaction, transaction.rs 41-72
serialize_transaction(tx) ==
    <<tx.version, tx.id, tx.sender, tx.recipient, tx.amount, tx.fee,
      tx.nonce>>
    \o (IF tx.signature = None THEN <<>> ELSE <<1, tx.signature[1]>>)
    \o <<RFC3339Len, tx.timestamp>>

\* bincode::deserialize of a Transaction at the head of bytes: the value and
\* the bytes after it; the Option tag must be 0 or 1
deserialize_transaction(bytes) ==
    LET fail == [ok |-> FALSE, val |-> None, rest |-> <<>>]
        tx(signature, at) ==
            [ok |-> TRUE,
             val |-> [version |-> bytes[1], id |-> bytes[2],
                      sender |-> bytes[3], recipient |-> bytes[4],
                      amount |-> bytes[5], fee |-> bytes[6],
                      nonce |-> bytes[7], signature |-> signature,
                      timestamp |-> bytes[at + 1]],
             rest |-> SubSeq(bytes, at + 2, Len(bytes))]
    IN  IF Len(bytes) < 8 THEN fail
        ELSE IF bytes[8] = 0
          THEN IF Len(bytes) < 10 THEN fail ELSE tx(None, 9)
        ELSE IF bytes[8] = 1
          THEN IF Len(bytes) < 11 THEN fail ELSE tx(Some(bytes[9]), 10)
        ELSE fail

RECURSIVE serialize_transactions(_)
serialize_transactions(txs) ==
    IF txs = <<>> THEN <<>>
    ELSE serialize_transaction(Head(txs)) \o serialize_transactions(Tail(txs))

\* the n elements of a Vec<Transaction> at the head of bytes
RECURSIVE deserialize_transactions(_, _, _)
deserialize_transactions(bytes, n, done) ==
    IF n = 0 THEN [ok |-> TRUE, val |-> done, rest |-> bytes]
    ELSE IF ~deserialize_transaction(bytes).ok
      THEN [ok |-> FALSE, val |-> <<>>, rest |-> <<>>]
    ELSE deserialize_transactions(deserialize_transaction(bytes).rest, n - 1,
                                  Append(done, deserialize_transaction(bytes).val))

\* bincode::serialize of a Block, block.rs 9-34 (an empty hash is left out)
serialize_block(block) ==
    <<block.version, block.index, RFC3339Len, block.timestamp,
      Len(block.transactions)>>
    \o serialize_transactions(block.transactions)
    \o <<block.proof, block.previous_hash>>
    \o (IF block.hash = <<>> THEN <<>> ELSE <<block.hash>>)

\* the fields of a Block that follow its transactions
deserialize_block_tail(bytes, txs) ==
    IF ~txs.ok \/ Len(txs.rest) < 3 THEN [ok |-> FALSE, val |-> None]
    ELSE [ok |-> TRUE,
          val |-> [version |-> bytes[1], index |-> bytes[2],
                   timestamp |-> bytes[4], transactions |-> txs.val,
                   proof |-> txs.rest[1], previous_hash |-> txs.rest[2],
                   hash |-> txs.rest[3]]]

\* bincode::deserialize::<Block>
deserialize_block(bytes) ==
    IF Len(bytes) < 5 THEN [ok |-> FALSE, val |-> None]
    ELSE deserialize_block_tail(
             bytes,
             deserialize_transactions(SubSeq(bytes, 6, Len(bytes)), bytes[5],
                                      <<>>))

\* bincode::serialize of an Account, account.rs 30-44
serialize_account(account) ==
    <<account.version, account.address, account.balance, account.nonce>>

\* bincode::deserialize::<Account>
deserialize_account(bytes) ==
    IF Len(bytes) < 4 THEN [ok |-> FALSE, val |-> None]
    ELSE [ok |-> TRUE,
          val |-> [version |-> bytes[1], address |-> bytes[2],
                   balance |-> bytes[3], nonce |-> bytes[4]]]

\* Tree::insert
tree_insert(tree, key, entry) ==
    [k \in (DOMAIN tree) \cup {key} |-> IF k = key THEN entry ELSE tree[k]]

\* BlockchainStorage::new on an empty directory
EmptyStorage ==
    [blocks |-> EmptyTree, transactions |-> EmptyTree, accounts |-> EmptyTree,
     metadata |-> EmptyTree]

\* BlockchainStorage::save_block
save_block(st, block) ==
    [st EXCEPT
       !.blocks = tree_insert(@, block.hash, serialize_block(block)),
       !.metadata = tree_insert(tree_insert(@, "latest_block_hash",
                                            block.hash),
                                "block_height", <<block.index>>)]

\* BlockchainStorage::get_block
get_block(st, hash) ==
    IF hash \notin DOMAIN st.blocks
      THEN [ok |-> FALSE, err |-> "NotFound", val |-> None]
    ELSE IF ~deserialize_block(st.blocks[hash]).ok
      THEN [ok |-> FALSE, err |-> "DeserializationError", val |-> None]
    ELSE [ok |-> TRUE, err |-> "none",
          val |-> deserialize_block(st.blocks[hash]).val]

\* BlockchainStorage::save_transaction
save_transaction(st, transaction) ==
    [st EXCEPT !.transactions =
                  tree_insert(@, transaction.id,
                              serialize_transaction(transaction))]

\* BlockchainStorage::get_transaction
get_transaction(st, id) ==
    IF id \notin DOMAIN st.transactions
      THEN [ok |-> FALSE, err |-> "NotFound", val |-> None]
    ELSE IF ~deserialize_transaction(st.transactions[id]).ok
      THEN [ok |-> FALSE, err |-> "DeserializationError", val |-> None]
    ELSE [ok |-> TRUE, err |-> "none",
          val |-> deserialize_transaction(st.transactions[id]).val]

\* BlockchainStorage::save_account
save_account(st, account) ==
    [st EXCEPT !.accounts =
                  tree_insert(@, account.address, serialize_account(account))]

RECURSIVE save_transactions(_, _)
save_transactions(st, txs) ==
    IF txs = <<>> THEN st
    ELSE save_transactions(save_transaction(st, Head(txs)), Tail(txs))

\* the loop over account_state.get_all_accounts() with save_account
RECURSIVE save_accounts(_, _, _)
save_accounts(st, accts, todo) ==
    IF todo = {} THEN st
    ELSE LET a == CHOOSE x \in todo : TRUE
         IN  save_accounts(save_account(st, accts[a]), accts, todo \ {a})

\* the blocks of a set in the order of blocks.sort_by_key(index) applied to
\* the key order of the tree (keys are the hash strings)
RECURSIVE sort_blocks(_)
sort_blocks(S) ==
    IF S = {} THEN <<>>
    ELSE LET first == CHOOSE b \in S :
                          \A c \in S :
                              \/ b.index < c.index
                              \/ /\ b.index = c.index
                                 /\ HashNum(b.hash) <= HashNum(c.hash)
         IN  <<first>> \o sort_blocks(S \ {first})

\* a get_all_blocks whose result is an error as soon as one entry is
\* unreadable
get_all_blocks_strict(st) ==
    LET valid  == {k \in DOMAIN st.blocks : deserialize_block(st.blocks[k]).ok}
        errors == {k \in DOMAIN st.blocks : ~deserialize_block(st.blocks[k]).ok}
    IN  IF errors # {}
          THEN [ok |-> FALSE, err |-> "DeserializationError", val |-> <<>>]
          ELSE [ok |-> TRUE, err |-> "none",
                val |-> sort_blocks({deserialize_block(st.blocks[k]).val :
                                        k \in valid})]

\* BlockchainStorage::get_all_blocks
get_all_blocks(st) ==
    LET valid  == {k \in DOMAIN st.blocks : deserialize_block(st.blocks[k]).ok}
        errors == {k \in DOMAIN st.blocks : ~deserialize_block(st.blocks[k]).ok}
    IN  IF errors # {} /\ valid = {}
          THEN [ok |-> FALSE, err |-> "DeserializationError", val |-> <<>>]
          ELSE [ok |-> TRUE, err |-> "none",
                val |-> sort_blocks({deserialize_block(st.blocks[k]).val :
                                        k \in valid})]

\* BlockchainStorage::get_all_accounts
get_all_accounts(st) ==
    LET valid  == {k \in DOMAIN st.accounts :
                      deserialize_account(st.accounts[k]).ok}
        errors == {k \in DOMAIN st.accounts :
                      ~deserialize_account(st.accounts[k]).ok}
    IN  IF errors # {} /\ valid = {}
          THEN [ok |-> FALSE, err |-> "DeserializationError", val |-> {}]
          ELSE [ok |-> TRUE, err |-> "none",
                val |-> {deserialize_account(st.accounts[k]).val :
                            k \in valid}]

(* ---------------------- chain.rs with storage ------------------------- *)
\* the loop of load_from_storage, chain.rs 395-398
RECURSIVE load_accounts(_, _)
load_accounts(accts, todo) ==
    IF todo = {} THEN accts
    ELSE LET account == CHOOSE x \in todo : TRUE
         IN  load_accounts(update_account(accts, account), todo \ {account})

RECURSIVE save_blocks(_, _)
save_blocks(st, ch) ==
    IF ch = <<>> THEN st
    ELSE save_blocks(save_transactions(save_block(st, Head(ch)),
                                       Head(ch).transactions), Tail(ch))

\* a save that writes the accounts and leaves the blocks out
save_to_storage_accounts_only(st, ch, accts) ==
    save_accounts(st, accts, DOMAIN accts)

\* Blockchain::save_to_storage
save_to_storage(st, ch, accts) ==
    save_accounts(save_blocks(st, ch), accts, DOMAIN accts)

\* Blockchain::load_from_storage on a new Blockchain
load_from_storage(st) ==
    LET blocks == get_all_blocks(st)
        stored == get_all_accounts(st)
        built  == rebuild_account_state(<<>>, blocks.val)
    IN  IF ~blocks.ok
          THEN [ok |-> FALSE, err |-> blocks.err, chain |-> <<>>,
                accounts |-> <<>>]
        ELSE IF blocks.val = <<>>
          THEN [ok |-> FALSE, err |-> "NotFound", chain |-> <<>>,
                accounts |-> <<>>]
        ELSE IF stored.ok
          THEN [ok |-> TRUE, err |-> "none", chain |-> blocks.val,
                accounts |-> load_accounts(<<>>, stored.val)]
        ELSE IF built.ok
          THEN [ok |-> TRUE, err |-> "none", chain |-> blocks.val,
                accounts |-> built.accounts]
        ELSE [ok |-> FALSE, err |-> built.err, chain |-> blocks.val,
              accounts |-> built.accounts]

\* Blockchain::with_storage on the database st at clock reading now
with_storage(st, now) ==
    LET loaded  == load_from_storage(st)
        genesis == Block_new(0, <<>>, 1, <<0>>, now)
    IN  IF loaded.ok
          THEN [ok |-> TRUE, err |-> "none", chain |-> loaded.chain,
                accounts |-> loaded.accounts, storage |-> st]
        ELSE IF loaded.err = "NotFound"
          THEN [ok |-> TRUE, err |-> "none", chain |-> <<genesis>>,
                accounts |-> <<>>,
                storage |-> save_to_storage(st, <<genesis>>, <<>>)]
        ELSE [ok |-> FALSE, err |-> loaded.err, chain |-> <<>>,
              accounts |-> <<>>, storage |-> st]

\* what can happen to the accounts tree while the node is down
Tampers == {"none", "accounts_deleted", "accounts_unreadable"}

tampered(st, how) ==
    IF how = "accounts_deleted" THEN [st EXCEPT !.accounts = EmptyTree]
    ELSE IF how = "accounts_unreadable"
      THEN [st EXCEPT !.accounts = [k \in DOMAIN @ |-> Unreadable]]
    ELSE st

\* Blockchain::with_storage on a new directory, at clock reading 0
StoreInit ==
    /\ chain = with_storage(EmptyStorage, 0).chain
    /\ pending = <<>>
    /\ accounts = with_storage(EmptyStorage, 0).accounts
    /\ mlock = 0
    /\ clock = 1
    /\ pc = [t \in Threads |-> "idle"]
    /\ cur = [t \in Threads |-> NoCall]
    /\ returned = NoReturn
    /\ nAdds = 0
    /\ nMines = 0
    /\ nFunds = 0
    /\ funded = 0
    /\ submitted = None
    /\ chlock = 0
    /\ storage = with_storage(EmptyStorage, 0).storage

\* mine_block, chain.rs 250-283 with storage: proof of work, push, then
\* save_block, save_transaction for the block's transactions, save_account
\* for every account, flush
MineAppendStored(t) ==
    /\ MineAppend(t)
    /\ LET new_block == chain'[Len(chain')]
       IN  storage' = save_accounts(
                          save_transactions(save_block(storage, new_block),
                                            new_block.transactions),
                          accounts, DOMAIN accounts)

\* a restart that finds the mempool of the stopped node again
Reopen_keeping_mempool(how) ==
    /\ \A t \in Threads : pc[t] \in {"idle", "down"}
    /\ \E r \in {with_storage(tampered(storage, how), clock)} :
           /\ chain' = r.chain
           /\ accounts' = r.accounts
           /\ storage' = r.storage
           /\ pc' = [t \in Threads |-> IF r.ok THEN "idle" ELSE "down"]
           /\ returned' = [op |-> "with_storage", thread |-> 0,
                           kind |-> IF r.ok THEN "Ok" ELSE r.err,
                           a |-> Len(r.chain), b |-> 0]
    /\ pending' = pending
    /\ UNCHANGED <<mlock, clock, cur, nAdds, nMines, nFunds, funded>>

\* the node stops between two requests and is started again with
\* Blockchain::with_storage on the same directory
Reopen(how) ==
    /\ \A t \in Threads : pc[t] \in {"idle", "down"}
    /\ \E r \in {with_storage(tampered(storage, how), clock)} :
           /\ chain' = r.chain
           /\ accounts' = r.accounts
           /\ storage' = r.storage
           /\ pc' = [t \in Threads |-> IF r.ok THEN "idle" ELSE "down"]
           /\ returned' = [op |-> "with_storage", thread |-> 0,
                           kind |-> IF r.ok THEN "Ok" ELSE r.err,
                           a |-> Len(r.chain), b |-> 0]
    /\ pending' = <<>>
    /\ UNCHANGED <<mlock, clock, cur, nAdds, nMines, nFunds, funded>>

StoreNext ==
    \/ /\ \E a \in Wallets, m \in FundAmounts : Fund(a, m)
       /\ UNCHANGED <<submitted, chlock, storage>>
    \/ SubmitWallet(1, FALSE)
    \/ AddPush(1) /\ UNCHANGED <<submitted, chlock, storage>>
    \/ AddReturn(1) /\ UNCHANGED <<submitted, chlock, storage>>
    \/ /\ \E miner \in Wallets : MineBlock(1, miner)
       /\ UNCHANGED <<submitted, chlock, storage>>
    \/ MineTransfer(1) /\ UNCHANGED <<submitted, chlock, storage>>
    \/ MineReward(1) /\ UNCHANGED <<submitted, chlock, storage>>
    \/ MineAppendStored(1) /\ UNCHANGED <<submitted, chlock>>
    \/ \E how \in Tampers : Reopen(how) /\ UNCHANGED <<submitted, chlock>>

StoreSpec == StoreInit /\ [][StoreNext]_vars

(* mine_block with storage where a write can fail and where the process can  *)
(* stop during the persistence step (chain.rs 262-281).                      *)
\* the databases the persistence step of mine_block can leave behind when it
\* does not run to its end: the writes are save_block, save_transaction for
\* each transaction in order, save_account for each account in the order the
\* DashMap yields them, and the ones made before the end are kept
partial_saves(st, new_block, accts) ==
    LET s1    == save_block(st, new_block)
        s2(j) == save_transactions(s1, SubSeq(new_block.transactions, 1, j))
        full  == s2(Len(new_block.transactions))
    IN  {st, s1}
        \cup {s2(j) : j \in 1..Len(new_block.transactions)}
        \cup {save_accounts(full, accts, S) : S \in SUBSET (DOMAIN accts)}

\* an error return of the persistence step that takes the block off the
\* chain again
MineAppendStoreError_undoing(t) ==
    /\ pc[t] = "mine_pow"
    /\ \E new_block \in {proof_of_work(get_last_block(chain).index + 1,
                                       cur[t].transactions,
                                       get_last_block(chain).hash, clock)} :
          /\ chain' = chain
          /\ clock' = new_block.timestamp + 1
          /\ storage' \in partial_saves(storage, new_block, accounts)
    /\ returned' = [op |-> "mine", thread |-> t, kind |-> "StorageError",
                    a |-> 0, b |-> 0]
    /\ mlock' = 0
    /\ pc' = [pc EXCEPT ![t] = "idle"]
    /\ cur' = [cur EXCEPT ![t] = NoCall]
    /\ UNCHANGED <<pending, accounts, nAdds, nMines, nFunds, funded>>

\* mine_block, chain.rs 250-281 where save_block, save_transaction,
\* save_account or flush returns an error: the block has been pushed to the
\* chain, `?` returns the StorageError
MineAppendStoreError(t) ==
    /\ pc[t] = "mine_pow"
    /\ \E new_block \in {proof_of_work(get_last_block(chain).index + 1,
                                       cur[t].transactions,
                                       get_last_block(chain).hash, clock)} :
          /\ chain' = Append(chain, new_block)
          /\ clock' = new_block.timestamp + 1
          /\ storage' \in partial_saves(storage, new_block, accounts)
    /\ returned' = [op |-> "mine", thread |-> t, kind |-> "StorageError",
                    a |-> 0, b |-> 0]
    /\ mlock' = 0
    /\ pc' = [pc EXCEPT ![t] = "idle"]
    /\ cur' = [cur EXCEPT ![t] = NoCall]
    /\ UNCHANGED <<pending, accounts, nAdds, nMines, nFunds, funded>>

\* the process stops while mine_block is in chain.rs 262-281: what is in
\* memory is gone, the database keeps the writes made so far
MineAppendStop(t) ==
    /\ pc[t] = "mine_pow"
    /\ \E new_block \in {proof_of_work(get_last_block(chain).index + 1,
                                       cur[t].transactions,
                                       get_last_block(chain).hash, clock)} :
          /\ clock' = new_block.timestamp + 1
          /\ storage' \in partial_saves(storage, new_block, accounts)
    /\ chain' = <<>>
    /\ pending' = <<>>
    /\ accounts' = <<>>
    /\ returned' = [op |-> "stop", thread |-> t, kind |-> "none",
                    a |-> 0, b |-> 0]
    /\ mlock' = 0
    /\ pc' = [u \in Threads |-> "down"]
    /\ cur' = [u \in Threads |-> NoCall]
    /\ UNCHANGED <<nAdds, nMines, nFunds, funded>>

PersistNext ==
    \/ StoreNext
    \/ MineAppendStoreError(1) /\ UNCHANGED <<submitted, chlock>>
    \/ MineAppendStop(1) /\ UNCHANGED <<submitted, chlock>>

PersistSpec == StoreInit /\ [][PersistNext]_vars

(* BlockchainStorage::get_all_blocks as a function of the blocks tree: the  *)
(* tree holds any subset of the stored forms of five entries, and           *)
(* get_all_blocks and with_storage are applied to it.                       *)
TreeBlocks ==
    LET b1 == Block_new(1, <<Signed(Transaction_new(1, "A", "B", MaxAmount,
                                                    MinimumFee, 0, 1), "A")>>,
                        0, genesis_block.hash, 2)
        b2 == Block_new(1, <<new_coinbase(MaxAdds + 1, "A", MiningReward, 1)>>,
                        1, genesis_block.hash, 3)
        b3 == Block_new(2, <<>>, 2, b1.hash, 4)
    IN  {genesis_block, b1, b2, b3}

\* the blocks tree after save_block of every block of TreeBlocks and a
\* cut-off entry
FullTree ==
    [k \in {b.hash : b \in TreeBlocks} \cup {[i \in 1..HashLen |-> HexBase - 1]}
        |-> IF \E b \in TreeBlocks : b.hash = k
              THEN serialize_block(CHOOSE b \in TreeBlocks : b.hash = k)
              ELSE Unreadable]

TreeInit ==
    /\ chain = <<>>
    /\ pending = <<>>
    /\ accounts = <<>>
    /\ mlock = 0
    /\ clock = 5
    /\ pc = [t \in Threads |-> "down"]
    /\ cur = [t \in Threads |-> NoCall]
    /\ returned = NoReturn
    /\ nAdds = 0
    /\ nMines = 0
    /\ nFunds = 0
    /\ funded = 0
    /\ submitted = None
    /\ chlock = 0
    /\ storage \in {[EmptyStorage EXCEPT !.blocks = [k \in K |-> FullTree[k]]] :
                       K \in SUBSET DOMAIN FullTree}

\* a call of BlockchainStorage::get_all_blocks on the database
GetAllBlocks ==
    /\ cur[1] = NoCall
    /\ \E r \in {get_all_blocks(storage)} :
           /\ cur' = [cur EXCEPT ![1] = [op |-> "get_all_blocks", result |-> r]]
           /\ returned' = [op |-> "get_all_blocks", thread |-> 0,
                           kind |-> IF r.ok THEN "Ok" ELSE r.err,
                           a |-> Len(r.val), b |-> 0]
    /\ UNCHANGED <<chain, pending, accounts, mlock, clock, pc, nAdds, nMines,
                   nFunds, funded, submitted, chlock, storage>>

TreeNext ==
    \/ GetAllBlocks
    \/ Reopen("none") /\ UNCHANGED <<submitted, chlock>>

TreeSpec == TreeInit /\ [][TreeNext]_vars

(* Transaction::sign as a function of the transaction and the wallet: a     *)
(* client builds a transaction, unsigned or already carrying a signature,   *)
(* calls sign with one of the wallets, and then calls verify_signature.     *)
SignInputs ==
    LET fresh == {Transaction_new(1, s, r, m, f, n, 1) :
                     s \in Addresses, r \in Wallets, m \in Amounts,
                     f \in Fees, n \in Nonces}
    IN  fresh \cup {Signed(tx, w) : tx \in fresh, w \in Wallets}

SignInit ==
    /\ chain = <<genesis_block>>
    /\ pending = <<>>
    /\ accounts = <<>>
    /\ mlock = 0
    /\ clock = 2
    /\ pc = [t \in Threads |-> IF t = 1 THEN "sign_call" ELSE "idle"]
    /\ cur \in {[t \in Threads |->
                   IF t = 1
                     THEN [op |-> "sign", tx |-> tx, wallet |-> w,
                           signed |-> "none"]
                     ELSE NoCall] : tx \in SignInputs, w \in Wallets}
    /\ returned = NoReturn
    /\ nAdds = 0
    /\ nMines = 0
    /\ nFunds = 0
    /\ funded = 0
    /\ submitted = None
    /\ chlock = 0
    /\ storage = None

\* transaction.sign(&wallet)
Sign ==
    /\ pc[1] = "sign_call"
    /\ \E r \in {sign(cur[1].tx, cur[1].wallet)} :
           /\ cur' = [cur EXCEPT ![1].tx = r.tx,
                                 ![1].signed = IF r.ok THEN "Ok" ELSE r.err]
           /\ returned' = [op |-> "sign", thread |-> 1,
                           kind |-> IF r.ok THEN "Ok" ELSE r.err,
                           a |-> 0, b |-> 0]
    /\ pc' = [pc EXCEPT ![1] = "sign_done"]
    /\ UNCHANGED <<chain, pending, accounts, mlock, clock, nAdds, nMines,
                   nFunds, funded, submitted, chlock, storage>>

\* transaction.verify_signature() on the transaction sign has left
VerifySignature ==
    /\ pc[1] = "sign_done"
    /\ \E v \in {verify_signature(cur[1].tx)} :
           returned' = [op |-> "verify_signature", thread |-> 1,
                        kind |-> IF v.ok THEN "Ok" ELSE v.err,
                        a |-> IF v.val THEN 1 ELSE 0, b |-> 0]
    /\ pc' = [pc EXCEPT ![1] = "sign_verified"]
    /\ UNCHANGED <<chain, pending, accounts, mlock, clock, cur, nAdds, nMines,
                   nFunds, funded, submitted, chlock, storage>>

SignNext == Sign \/ VerifySignature

SignSpec == SignInit /\ [][SignNext]_vars

(* AccountState::transfer as a function of the account map and its          *)
(* arguments: the accounts of A and B are drawn, and one call is made.       *)
TransferCalls ==
    {[op |-> "transfer", from |-> f, to |-> r, amount |-> m, fee |-> e,
      nonce |-> n] :
        f \in Wallets, r \in Wallets, m \in Amounts, e \in Fees, n \in Nonces}

TransferAccounts ==
    LET forA == {<<>>} \cup {update_account(<<>>, x) : x \in StoredAccounts("A")}
        forB == {Account_new("B"), [Account_new("B") EXCEPT !.balance = MaxAmount]}
    IN  forA \cup {update_account(m, b) : m \in forA, b \in forB}

TransferInit ==
    /\ chain = <<genesis_block>>
    /\ pending = <<>>
    /\ accounts \in TransferAccounts
    /\ mlock = 0
    /\ clock = 1
    /\ pc = [t \in Threads |-> IF t = 1 THEN "transfer_call" ELSE "idle"]
    /\ cur \in {[t \in Threads |-> IF t = 1 THEN c ELSE NoCall] :
                    c \in TransferCalls}
    /\ returned = NoReturn
    /\ nAdds = 0
    /\ nMines = 0
    /\ nFunds = 0
    /\ funded = 0
    /\ submitted = None
    /\ chlock = 0
    /\ storage = None

\* account_state.transfer(&from, &to, amount, fee, nonce)
Transfer ==
    /\ pc[1] = "transfer_call"
    /\ \E r \in {transfer(accounts, cur[1].from, cur[1].to, cur[1].amount,
                          cur[1].fee, cur[1].nonce)} :
          /\ accounts' = r.accounts
          /\ returned' = [op |-> "transfer", thread |-> 1,
                          kind |-> IF r.ok THEN "Ok" ELSE r.err,
                          a |-> r.a, b |-> r.b]
    /\ pc' = [pc EXCEPT ![1] = "transfer_done"]
    /\ UNCHANGED <<chain, pending, mlock, clock, cur, nAdds, nMines, nFunds,
                   funded, submitted, chlock, storage>>

TransferNext == Transfer

TransferSpec == TransferInit /\ [][TransferNext]_vars

(* add_transaction and mine_block called one at a time on a node whose       *)
(* wallet A was funded and has had one transfer admitted.                    *)
AbortInit ==
    /\ chain = <<genesis_block>>
    /\ accounts = update_account(<<>>,
                      [Account_new("A") EXCEPT !.balance = MaxAmount + MinimumFee])
    /\ pending \in {<<Signed(Transaction_new(0, "A", r, MaxAmount, MinimumFee,
                                             0, 0), "A")>> : r \in Wallets}
    /\ mlock = 0
    /\ clock = 1
    /\ pc = [t \in Threads |-> "idle"]
    /\ cur = [t \in Threads |-> NoCall]
    /\ returned = NoReturn
    /\ nAdds = 0
    /\ nMines = 0
    /\ nFunds = MaxFunds
    /\ funded = MaxAmount + MinimumFee
    /\ submitted = None
    /\ chlock = 0
    /\ storage = None

AbortNext ==
    \/ SubmitUnsigned(1, FALSE)
    \/ SubmitSigned(1, FALSE)
    \/ Resubmit(1, FALSE)
    \/ AddPush(1) /\ UNCHANGED <<submitted, chlock, storage>>
    \/ AddReturn(1) /\ UNCHANGED <<submitted, chlock, storage>>
    \/ /\ \E miner \in Wallets : MineBlock(1, miner)
       /\ UNCHANGED <<submitted, chlock, storage>>
    \/ MineTransfer(1) /\ UNCHANGED <<submitted, chlock, storage>>
    \/ MineReward(1) /\ UNCHANGED <<submitted, chlock, storage>>
    \/ MineAppend(1) /\ UNCHANGED <<submitted, chlock, storage>>

AbortSpec == AbortInit /\ [][AbortNext]_vars

(* ------------------------------ properties ---------------------------- *)
RECURSIVE SumOf(_, _)
SumOf(f, S) ==
    IF S = {} THEN 0
    ELSE LET x == CHOOSE y \in S : TRUE IN f[x] + SumOf(f, S \ {x})

TotalBalance == SumOf([a \in DOMAIN accounts |-> accounts[a].balance],
                      DOMAIN accounts)

FeesOf(txs) ==
    SumOf([i \in DOMAIN txs |->
             IF txs[i].sender = "0" /\ txs[i].fee = 0 /\ txs[i].nonce = 0
               THEN 0 ELSE txs[i].fee],
          DOMAIN txs)

FeesInChain == SumOf([k \in DOMAIN chain |-> FeesOf(chain[k].transactions)],
                     DOMAIN chain)

NonCoinbase(tx) == ~(tx.sender = "0" /\ tx.fee = 0 /\ tx.nonce = 0)

FieldsOf(tx) ==
    <<tx.version, tx.id, tx.sender, tx.recipient, tx.amount, tx.fee,
      tx.nonce, tx.timestamp>>

\* tx carries a signature made by the key of its sender over its fields
SignedBySender(tx) ==
    /\ tx.signature # <<>>
    /\ tx.signature[1].signer = tx.sender
    /\ tx.signature[1].msg = FieldsOf(tx)

\* thread t returns an error from mine_block in this step
MineFails(t) ==
    /\ pc[t] = "mine_loop"
    /\ returned'.op = "mine"
    /\ returned'.thread = t
    /\ returned'.kind # "Ok"

\* C1: every block after the genesis block has the index of its position,
\* the hash of its predecessor as previous_hash, a hash equal to its
\* recomputed hash, and a hash that starts with `difficulty` zeros, under
\* every interleaving of add_transaction and mine_block calls.
C1_ChainWellFormed ==
    \A i \in 2..Len(chain) :
        /\ chain[i].index = i - 1
        /\ chain[i].previous_hash = chain[i - 1].hash
        /\ chain[i].hash = calculate_hash(chain[i])
        /\ Len(chain[i].hash) >= Difficulty
        /\ \A k \in 1..Difficulty : chain[i].hash[k] = 0

C1_Witness ==
    /\ Len(chain) = 3
    /\ \E i \in DOMAIN chain[3].transactions :
           NonCoinbase(chain[3].transactions[i])

\* C2: whenever no mine_block call is running, the sum of all balances is
\* the funded sum plus mining_reward per mined block minus the fees of the
\* non-coinbase transactions in the chain.
C2_Conservation ==
    mlock = 0 =>
        TotalBalance = funded + MiningReward * (Len(chain) - 1) - FeesInChain

C4_MineFailClosed ==
    [][\A t \in Threads : MineFails(t) => accounts' = cur[t].accounts0]_vars

\* C5: when mine_block returns an error, the mempool is the one the call
\* found (same transactions, same order, no reward transaction) and the
\* chain is the one the call found.
C5_AbortKeepsMempoolAndChain ==
    [][\A t \in Threads :
          MineFails(t) =>
              /\ pending' = cur[t].pending0
              /\ pending' = pending
              /\ chain' = cur[t].chain0
              /\ chain' = chain]_vars

C5_Witness ==
    /\ returned.op = "mine"
    /\ returned.kind = "InvalidNonce"
    /\ Len(pending) = 2
    /\ Len(chain) = 1

\* C6: no step of add_transaction changes the account state or the chain;
\* a call that fails leaves the mempool as it is, and the only step that
\* changes the mempool appends the submitted transaction at its end.
C6_AddFrame ==
    [][\A t \in Threads :
          LET checks  == /\ pc[t] = "idle"
                         /\ \/ pc'[t] = "add_push"
                            \/ returned'.op = "add" /\ returned'.thread = t
              pushes  == pc[t] = "add_push" /\ pc'[t] = "add_ret"
              returns == pc[t] = "add_ret" /\ pc'[t] = "idle"
          IN  /\ (checks \/ pushes \/ returns) =>
                     (accounts' = accounts /\ chain' = chain)
              /\ (checks \/ returns) => pending' = pending
              /\ pushes => pending' = pending \o <<cur[t].tx>>]_vars

C6_Witness ==
    /\ returned.op = "add"
    /\ returned.kind = "Ok"
    /\ Len(pending) = 2

\* C7: every non-coinbase transaction in the mempool or in a block carries
\* a signature made by its sender's key over its fields, and a fee of at
\* least minimum_fee.
C7_AdmittedAreSigned ==
    \A tx \in KnownTxs :
        NonCoinbase(tx) => (SignedBySender(tx) /\ tx.fee >= MinimumFee)

C7_Witness ==
    \E k \in 2..Len(chain) : \E i \in DOMAIN chain[k].transactions :
        NonCoinbase(chain[k].transactions[i])

\* C8: every transaction in the mempool has amount > 0.
C8_PositiveAmounts ==
    \A i \in DOMAIN pending : pending[i].amount > 0

\* C9: for a non-coinbase transaction signed by its sender, add_transaction
\* answers fee < minimum_fee with InvalidAmount; else balance < amount + fee
\* with InsufficientFunds{amount + fee, balance}; else a nonce other than the
\* sender's with InvalidNonce{sender's nonce, nonce}; else it goes on to push
\* the transaction.
C9_AdmissionOrder ==
    [][(submitted = <<>> /\ submitted' # <<>>
        /\ NonCoinbase(submitted'[1]) /\ SignedBySender(submitted'[1])) =>
          LET tx  == submitted'[1]
              bal == IF tx.sender \in DOMAIN accounts
                       THEN accounts[tx.sender].balance ELSE 0
              non == IF tx.sender \in DOMAIN accounts
                       THEN accounts[tx.sender].nonce ELSE 0
          IN  IF tx.fee < MinimumFee
                THEN returned'.op = "add" /\ returned'.kind = "InvalidAmount"
              ELSE IF bal < tx.amount + tx.fee
                THEN returned' = [op |-> "add", thread |-> 1,
                                  kind |-> "InsufficientFunds",
                                  a |-> tx.amount + tx.fee, b |-> bal]
              ELSE IF tx.nonce # non
                THEN returned' = [op |-> "add", thread |-> 1,
                                  kind |-> "InvalidNonce",
                                  a |-> non, b |-> tx.nonce]
              ELSE /\ pc'[1] = "add_push"
                   /\ cur'[1].tx = tx
                   /\ returned'.op = "none"]_vars

\* the boundary values are accepted: fee == minimum_fee, balance == amount +
\* fee and nonce == sender.nonce
C9_Witness ==
    /\ submitted # <<>>
    /\ returned.op = "add" /\ returned.kind = "Ok"
    /\ pending # <<>> /\ pending[Len(pending)] = submitted[1]
    /\ NonCoinbase(submitted[1])
    /\ submitted[1].fee = MinimumFee
    /\ submitted[1].sender \in DOMAIN accounts
    /\ accounts[submitted[1].sender].balance
         = submitted[1].amount + submitted[1].fee
    /\ accounts[submitted[1].sender].nonce = submitted[1].nonce
    /\ submitted[1].nonce > 0

\* the call just made was given a non-coinbase transaction whose signature
\* was not made by its sender's key over its current fields
ForgedCall ==
    /\ submitted = <<>> /\ submitted' # <<>>
    /\ NonCoinbase(submitted'[1])
    /\ submitted'[1].signature # <<>>
    /\ ~SignedBySender(submitted'[1])

\* C10 as stated: every such call returns InvalidSignature and leaves the
\* mempool unchanged.
C10_Original ==
    [][ForgedCall =>
          /\ returned'.op = "add" /\ returned'.kind = "InvalidSignature"
          /\ pending' = pending]_vars

\* C10: every such call is rejected and leaves the mempool unchanged; it
\* returns InvalidSignature when the sender address is a public key, and the
\* address decoding error (CryptoError) when it is not, as for "0".
C10_ForgedRejected ==
    [][ForgedCall =>
          /\ returned'.op = "add"
          /\ returned'.kind = IF submitted'[1].sender = "0"
                                THEN "CryptoError" ELSE "InvalidSignature"
          /\ pc'[1] = "idle"
          /\ pending' = pending]_vars

C10_Witness ==
    /\ submitted # <<>>
    /\ returned.op = "add" /\ returned.kind = "InvalidSignature"
    /\ submitted[1].signature # <<>>
    /\ submitted[1].signature[1].signer = submitted[1].sender
    /\ submitted[1].signature[1].msg # FieldsOf(submitted[1])
    /\ pending # <<>>

BalanceOf(accts, a) == IF a \in DOMAIN accts THEN accts[a].balance ELSE 0

NonceOf(accts, a) == IF a \in DOMAIN accts THEN accts[a].nonce ELSE 0

\* thread t returns Ok from mine_block in this step
MineSucceeds(t) ==
    /\ pc[t] = "mine_pow"
    /\ returned'.op = "mine"
    /\ returned'.thread = t
    /\ returned'.kind = "Ok"

\* thread t completes one transfer of the mine_block loop in this step
TransferApplied(t) ==
    /\ pc[t] = "mine_loop"
    /\ pc'[t] = "mine_loop"
    /\ cur[t].i <= Len(pending)
    /\ NonCoinbase(pending[cur[t].i])
    /\ cur'[t].i = cur[t].i + 1

\* C11: when mine_block(M) succeeds on a mempool holding one admitted
\* transaction (S to R, amount, fee, nonce = S.nonce), the block returned has
\* index last.index + 1 and 2 transactions, the mempool is empty, S.nonce is
\* one higher, and the balances have changed by -(amount + fee) for S, +amount
\* for R and +mining_reward for M, added up where addresses coincide.
C11_MineOneTransaction ==
    [][\A t \in Threads :
          (/\ MineSucceeds(t)
           /\ Len(cur[t].pending0) = 1
           /\ NonCoinbase(cur[t].pending0[1])
           /\ cur[t].pending0[1].nonce
                = NonceOf(cur[t].accounts0, cur[t].pending0[1].sender)) =>
              LET tx   == cur[t].pending0[1]
                  old  == cur[t].accounts0
                  M    == cur[t].miner
                  blk  == chain'[Len(chain')]
              IN  /\ Len(chain') = Len(chain) + 1
                  /\ blk.index = chain[Len(chain)].index + 1
                  /\ returned'.a = blk.index
                  /\ Len(blk.transactions) = 2
                  /\ pending' = <<>>
                  /\ \A a \in Addresses :
                        /\ NonceOf(accounts', a)
                             = NonceOf(old, a)
                               + (IF a = tx.sender THEN 1 ELSE 0)
                        /\ BalanceOf(accounts', a)
                             = BalanceOf(old, a)
                               - (IF a = tx.sender
                                    THEN tx.amount + tx.fee ELSE 0)
                               + (IF a = tx.recipient THEN tx.amount ELSE 0)
                               + (IF a = M THEN MiningReward ELSE 0)]_vars

\* C12: after a successful transfer(from, to, amount, fee, nonce), for every
\* from and to (from = to included), the sender's nonce is one higher, the
\* sender is debited amount + fee, the recipient is credited amount, and the
\* sum of all balances is lower by fee.
C12_TransferEffect ==
    [][\A t \in Threads :
          TransferApplied(t) =>
              LET tx == pending[cur[t].i]
              IN  /\ \A a \in Addresses :
                        /\ NonceOf(accounts', a)
                             = NonceOf(accounts, a)
                               + (IF a = tx.sender THEN 1 ELSE 0)
                        /\ BalanceOf(accounts', a)
                             = BalanceOf(accounts, a)
                               - (IF a = tx.sender
                                    THEN tx.amount + tx.fee ELSE 0)
                               + (IF a = tx.recipient THEN tx.amount ELSE 0)
                  /\ TotalBalance' = TotalBalance - tx.fee]_vars

\* the transactions in the blocks of the chain
InChain ==
    UNION {{chain[k].transactions[i] : i \in DOMAIN chain[k].transactions}
           : k \in DOMAIN chain}

\* how often tx occurs in the sequence txs
Occurrences(tx, txs) == Cardinality({i \in DOMAIN txs : txs[i] = tx})

\* C13: a non-coinbase transaction that a successful mine_block has applied
\* (it is in a block of the chain) is not admitted again by add_transaction,
\* so that no signed transaction is applied twice.
C13_NoReplay ==
    [][\A t \in Threads :
          (pc[t] = "idle" /\ pc'[t] = "add_push"
           /\ NonCoinbase(cur'[t].tx)) => cur'[t].tx \notin InChain]_vars

\* C14: when add_transaction returns Ok(index) and its transaction has been
\* taken into a block, that block has the index returned.
C14_ReturnedIndex ==
    [][\A t \in Threads :
          (pc[t] = "add_ret" /\ pc'[t] = "idle"
           /\ Occurrences(cur[t].tx, pending) = 0) =>
              \A k \in DOMAIN chain :
                  Occurrences(cur[t].tx, chain[k].transactions) > 0 =>
                      chain[k].index = returned'.a]_vars

\* C15: at the step that appends a non-coinbase transaction to the mempool,
\* the account of its sender has nonce = tx.nonce and balance >= amount + fee.
C15_AppendSeesChecks ==
    [][\A t \in Threads :
          (pc[t] = "add_push" /\ pc'[t] = "add_ret"
           /\ NonCoinbase(cur[t].tx)) =>
              /\ NonceOf(accounts, cur[t].tx.sender) = cur[t].tx.nonce
              /\ BalanceOf(accounts, cur[t].tx.sender)
                   >= cur[t].tx.amount + cur[t].tx.fee]_vars

\* the blocks of the chain that hold tx
BlocksWith(tx) ==
    {k \in DOMAIN chain : Occurrences(tx, chain[k].transactions) > 0}

\* C18: every admitted non-coinbase transaction that is in the mempool is in
\* no block, and none is in two blocks.
C18_OnePlace ==
    \A tx \in KnownTxs :
        NonCoinbase(tx) =>
            /\ Occurrences(tx, pending) = 0 \/ BlocksWith(tx) = {}
            /\ Cardinality(BlocksWith(tx)) <= 1

\* C20: for a chain built from empty account state by add_transaction and
\* mine_block calls, rebuild_account_state on empty account state succeeds
\* and yields the account state the node holds.
C20_RebuildEqualsForward ==
    (funded = 0 /\ \A t \in Threads : pc[t] = "idle") =>
        LET r == rebuild_account_state(<<>>, chain)
        IN  r.ok /\ r.accounts = accounts

\* the account map after call c has run alone on accts
CallAlone(accts, c) ==
    IF c.op = "transfer"
      THEN transfer(accts, c.from, c.to, c.amount, c.fee, c.nonce).accounts
    ELSE IF c.op = "process_mining_reward"
      THEN process_mining_reward(accts, c.miner, c.reward).accounts
    ELSE IF c.op = "get_account" THEN accts
    ELSE update_account(accts, c.account)

\* the account map after the calls of the threads have run one after the
\* other in the given order
RECURSIVE InOrder(_, _)
InOrder(accts, order) ==
    IF order = <<>> THEN accts
    ELSE InOrder(CallAlone(accts, cur[Head(order)].call), Tail(order))

Orders ==
    {o \in [1..NumThreads -> Threads] :
        \A i, j \in 1..NumThreads : o[i] = o[j] => i = j}

\* C16: when concurrent calls of transfer, process_mining_reward and
\* update_account have all returned, the account map is the one that some
\* sequential order of the same calls produces.
C16_Linearizable ==
    (\A t \in Threads : pc[t] = "acct_done") =>
        \E o \in Orders : accounts = InOrder(FundedAccounts, o)

\* the mutex a thread is waiting for at its next step, if any
WaitsFor(t) ==
    IF pc[t] = "add_push" THEN "mempool"
    ELSE IF pc[t] \in {"add_ret", "mine_pow", "mine_push"} THEN "chain"
    ELSE "none"

Holder(lock) == IF lock = "mempool" THEN mlock ELSE chlock

\* C17: no interleaving of add_transaction, mine_block, get_chain,
\* get_pending_transactions, get_last_block and is_valid deadlocks (there is
\* no set of threads each waiting for a mutex held by a thread of the set);
\* no thread holds the chain lock and the mempool lock while it runs the
\* transfers or the reward of mine_block; and no thread acquires the mempool
\* lock while it holds the chain lock.
C17_NoDeadlock ==
    /\ [](\A S \in SUBSET Threads :
              S # {} =>
                  \E t \in S : \/ WaitsFor(t) = "none"
                                \/ Holder(WaitsFor(t)) \notin S)
    /\ [](\A t \in Threads :
              pc[t] = "mine_loop" => ~(mlock = t /\ chlock = t))
    /\ [][\A t \in Threads :
             (mlock # t /\ mlock' = t) => chlock # t]_vars

\* a mine_block holding the mempool lock waits for the chain lock, which a
\* reader of the chain holds
C17_Witness ==
    \E t, u \in Threads :
        /\ pc[t] = "mine_push" /\ mlock = t
        /\ chlock = u /\ pc[u] = "read_chain" /\ cur[u].op = "is_valid"
        /\ Len(cur[t].new_block.transactions) = 2

\* C19: when a node whose chain holds mined blocks and whose account state
\* has been saved is reopened after its accounts tree was deleted or left
\* without a readable account, with_storage succeeds with the same chain and
\* with balances and nonces equal to those before the restart.
C19_RecoverAccounts ==
    [][(/\ returned'.op = "with_storage"
        /\ \A t \in Threads : pc[t] = "idle"
        /\ Len(chain) >= 2
        /\ pending = <<>>
        /\ get_all_accounts(storage).ok
        /\ load_accounts(<<>>, get_all_accounts(storage).val) = accounts
        /\ \A k \in DOMAIN storage'.accounts :
               ~deserialize_account(storage'.accounts[k]).ok) =>
          /\ returned'.kind = "Ok"
          /\ chain' = chain
          /\ \A a \in Addresses :
                /\ BalanceOf(accounts', a) = BalanceOf(accounts, a)
                /\ NonceOf(accounts', a) = NonceOf(accounts, a)]_vars

\* no two blocks of the chain have the same hash (the key they are stored by)
DistinctHashes ==
    \A i, j \in DOMAIN chain : chain[i].hash = chain[j].hash => i = j

\* C21: when a node opened with with_storage is stopped right after a
\* completed mine_block and opened again with with_storage on the same
\* directory, with_storage succeeds and the chain and the accounts are the
\* ones the node held after that mine_block (the blocks having distinct
\* hashes).
C21_RestartKeepsState ==
    [][(/\ returned.op = "mine" /\ returned.kind = "Ok"
        /\ DistinctHashes
        /\ returned'.op = "with_storage"
        /\ storage' = storage) =>
          /\ returned'.kind = "Ok"
          /\ chain' = chain
          /\ accounts' = accounts]_vars

\* C22: the block that mine_block has just saved and each of its
\* transactions (signed ones and the coinbase) are read back by get_block,
\* get_all_blocks and get_transaction equal to the value saved, the block
\* with the same recomputed hash.
C22_ReadBackEqual ==
    [][(pc[1] = "mine_pow" /\ returned'.op = "mine"
        /\ returned'.kind = "Ok") =>
          LET block == chain'[Len(chain')]
          IN  /\ get_block(storage', block.hash).ok
              /\ get_block(storage', block.hash).val = block
              /\ calculate_hash(get_block(storage', block.hash).val)
                   = block.hash
              /\ get_all_blocks(storage').ok
              /\ \E k \in DOMAIN get_all_blocks(storage').val :
                     get_all_blocks(storage').val[k] = block
              /\ \A i \in DOMAIN block.transactions :
                     /\ get_transaction(storage', block.transactions[i].id).ok
                     /\ get_transaction(storage',
                                        block.transactions[i].id).val
                          = block.transactions[i]]_vars

\* C23: before any call has been made on a Blockchain built by new(), the
\* chain is exactly one block with index 0, proof 1, previous_hash "0" and
\* no transactions, the mempool is empty, and is_valid() is true.
C23_FreshChain ==
    (nAdds = 0 /\ nMines = 0 /\ \A t \in Threads : pc[t] = "idle") =>
        /\ Len(chain) = 1
        /\ chain[1].index = 0
        /\ chain[1].proof = 1
        /\ chain[1].previous_hash = <<0>>
        /\ chain[1].transactions = <<>>
        /\ pending = <<>>
        /\ is_valid(chain)

C23_Witness ==
    /\ nAdds = 0 /\ nMines = 0 /\ nFunds = 0
    /\ \A t \in Threads : pc[t] = "idle"
    /\ returned = NoReturn
    /\ Len(chain) = 1

\* C24: is_valid() is true in every state reached from new() through
\* add_transaction and mine_block calls, whether they succeed or fail.
C24_AlwaysValid == is_valid(chain)

\* two blocks have been mined and an add_transaction call has just failed
C24_Witness ==
    /\ Len(chain) = 3
    /\ returned.op = "add"
    /\ returned.kind = "InvalidNonce"

\* C25: when mine_block(M) succeeds on a mempool that was empty, the chain
\* has grown by one block with index last.index + 1 whose only transaction
\* is the coinbase to M, the balance of M is higher by mining_reward, and no
\* other balance and no nonce has changed.
C25_MineEmptyMempool ==
    [][\A t \in Threads :
          (MineSucceeds(t) /\ cur[t].pending0 = <<>>) =>
              LET old == cur[t].accounts0
                  M   == cur[t].miner
                  blk == chain'[Len(chain')]
              IN  /\ chain' = Append(chain, blk)
                  /\ blk.index = chain[Len(chain)].index + 1
                  /\ returned'.a = blk.index
                  /\ Len(blk.transactions) = 1
                  /\ blk.transactions[1].sender = "0"
                  /\ blk.transactions[1].recipient = M
                  /\ blk.transactions[1].amount = MiningReward
                  /\ blk.transactions[1].fee = 0
                  /\ blk.transactions[1].signature = <<>>
                  /\ \A a \in Addresses :
                        /\ NonceOf(accounts', a) = NonceOf(old, a)
                        /\ BalanceOf(accounts', a)
                             = BalanceOf(old, a)
                               + (IF a = M THEN MiningReward ELSE 0)]_vars

\* the same miner has mined two blocks on an empty mempool
C25_Witness ==
    /\ returned.op = "mine" /\ returned.kind = "Ok"
    /\ Len(chain) = 3
    /\ Len(chain[2].transactions) = 1
    /\ Len(chain[3].transactions) = 1
    /\ chain[2].transactions[1].recipient = chain[3].transactions[1].recipient
    /\ BalanceOf(accounts, chain[3].transactions[1].recipient)
         = 2 * MiningReward

\* C26: the chain is never empty, and every step leaves the chain it found
\* as a prefix of the chain it leaves.
C26_AppendOnly ==
    /\ [](Len(chain) >= 1)
    /\ [][/\ Len(chain') >= Len(chain)
          /\ SubSeq(chain', 1, Len(chain)) = chain]_vars

\* a block was appended on top of a mined block holding a client transaction
C26_Witness ==
    /\ Len(chain) = 3
    /\ Len(chain[2].transactions) = 2
    /\ returned.op = "mine" /\ returned.kind = "Ok"

\* C27: a call of get_account leaves the account map as it is; for an
\* address that has no stored account it returns balance 0 and nonce 0 and
\* the address still has no stored account afterwards.
C27_GetAccountReadOnly ==
    [][\A t \in Threads :
          (/\ pc[t] = "acct_call"
           /\ cur[t].call.op = "get_account"
           /\ pc'[t] = "acct_done") =>
              /\ accounts' = accounts
              /\ DOMAIN accounts' = DOMAIN accounts
              /\ cur[t].call.address \notin DOMAIN accounts =>
                     /\ returned'.a = 0
                     /\ returned'.b = 0
                     /\ cur[t].call.address \notin DOMAIN accounts'
              /\ cur[t].call.address \in DOMAIN accounts =>
                     /\ returned'.a = accounts[cur[t].call.address].balance
                     /\ returned'.b = accounts[cur[t].call.address].nonce]_vars

\* get_account has returned for an address that has no stored account
C27_Witness ==
    /\ returned.op = "get_account"
    /\ returned.a = 0 /\ returned.b = 0
    /\ \E t \in Threads :
           /\ returned.thread = t
           /\ pc[t] = "acct_done"
           /\ cur[t].call.op = "get_account"
           /\ cur[t].call.address \notin DOMAIN accounts

\* the keys of the blocks tree whose entries bincode can read as a Block
ReadableKeys ==
    {k \in DOMAIN storage.blocks : deserialize_block(storage.blocks[k]).ok}

\* C28: get_all_blocks on a tree with at least one readable entry succeeds
\* and returns exactly the readable blocks in ascending order of index; on a
\* tree with entries none of which is readable it fails with
\* DeserializationError; on an empty tree it returns the empty list, which
\* load_from_storage reports as NotFound, and with_storage then creates the
\* genesis block.
C28_GetAllBlocks ==
    [][/\ returned'.op = "get_all_blocks" =>
            LET res == cur'[1].result
            IN  /\ ReadableKeys # {} =>
                      /\ res.ok
                      /\ Len(res.val) = Cardinality(ReadableKeys)
                      /\ {res.val[i] : i \in DOMAIN res.val}
                           = {deserialize_block(storage.blocks[k]).val :
                                 k \in ReadableKeys}
                      /\ \A i, j \in DOMAIN res.val :
                             i < j => res.val[i].index <= res.val[j].index
                /\ (ReadableKeys = {} /\ DOMAIN storage.blocks # {}) =>
                      /\ ~res.ok
                      /\ res.err = "DeserializationError"
                /\ DOMAIN storage.blocks = {} =>
                      /\ res.ok
                      /\ res.val = <<>>
       /\ (returned'.op = "with_storage" /\ DOMAIN storage.blocks = {}) =>
            /\ load_from_storage(storage).err = "NotFound"
            /\ returned'.kind = "Ok"
            /\ Len(chain') = 1
            /\ chain'[1].index = 0
            /\ chain'[1].transactions = <<>>
            /\ DOMAIN storage'.blocks = {chain'[1].hash}]_vars

\* get_all_blocks has returned three blocks from a tree of five entries
C28_Witness ==
    /\ returned.op = "get_all_blocks"
    /\ returned.kind = "Ok"
    /\ returned.a = 3
    /\ Cardinality(DOMAIN storage.blocks) = 5
    /\ cur[1].result.val[1].index = 0
    /\ cur[1].result.val[3].index = 2

\* C29: the genesis block that with_storage created on the empty store is in
\* the blocks tree and reads back equal; every later with_storage on the
\* same directory succeeds with that block (same hash, same timestamp) as
\* the first block of the chain, and the chain holds one block with index 0.
C29_GenesisKept ==
    /\ [](chain # <<>> =>
            /\ get_block(storage, chain[1].hash).ok
            /\ get_block(storage, chain[1].hash).val = chain[1]
            /\ chain[1].index = 0
            /\ \A k \in 2..Len(chain) : chain[k].index # 0)
    /\ [][returned'.op = "with_storage" =>
            /\ returned'.kind = "Ok"
            /\ chain'[1] = chain[1]
            /\ chain'[1].hash = chain[1].hash
            /\ chain'[1].timestamp = chain[1].timestamp
            /\ DOMAIN storage.blocks \subseteq DOMAIN storage'.blocks
            /\ DOMAIN storage'.blocks \subseteq DOMAIN storage.blocks]_vars

\* the node was opened again after a block had been mined, at a clock
\* reading later than the one of the genesis block
C29_Witness ==
    /\ returned.op = "with_storage"
    /\ returned.kind = "Ok"
    /\ clock > 1
    /\ chain[1].timestamp = 0
    /\ Cardinality(DOMAIN storage.blocks) >= 2

\* C30: sign on a transaction that carries a signature returns AlreadySigned
\* and on an unsigned one with a wallet whose address is not the sender
\* returns InvalidSenderAddress, both leaving the transaction as it was;
\* otherwise it returns Ok, changes only the signature field, and
\* verify_signature on the result returns Ok(true).
C30_Sign ==
    [][/\ (pc[1] = "sign_call" /\ pc'[1] = "sign_done") =>
            IF cur[1].tx.signature # <<>>
              THEN /\ returned'.kind = "AlreadySigned"
                   /\ cur'[1].tx = cur[1].tx
            ELSE IF cur[1].wallet # cur[1].tx.sender
              THEN /\ returned'.kind = "InvalidSenderAddress"
                   /\ cur'[1].tx = cur[1].tx
            ELSE /\ returned'.kind = "Ok"
                 /\ cur'[1].tx.signature # <<>>
                 /\ [cur'[1].tx EXCEPT !.signature = <<>>] = cur[1].tx
       /\ (pc[1] = "sign_done" /\ pc'[1] = "sign_verified"
           /\ cur[1].signed = "Ok") =>
            /\ returned'.op = "verify_signature"
            /\ returned'.kind = "Ok"
            /\ returned'.a = 1]_vars

\* sign has succeeded and verify_signature has returned Ok(true)
C30_Witness ==
    /\ pc[1] = "sign_verified"
    /\ cur[1].signed = "Ok"
    /\ cur[1].tx.signature # <<>>
    /\ cur[1].tx.sender = cur[1].wallet
    /\ returned.op = "verify_signature"
    /\ returned.a = 1

\* C31: the block mine_block returns holds the mempool's transactions in the
\* order they were pushed, followed by the one coinbase to the miner that
\* mine_block built; the loop applies the transfer of the i-th mempool
\* transaction in its i-th iteration, the reward is credited only after the
\* last iteration, and the chain grows only after the reward was credited.
C31_MineOrder ==
    [][\A t \in Threads :
          /\ (pc[t] = "mine_loop" /\ cur'[t] # cur[t]) =>
                LET i == cur[t].i
                IN  /\ chain' = chain
                    /\ pending = cur[t].pending0
                    /\ IF i <= Len(pending)
                         THEN /\ accounts' =
                                   IF is_coinbase(pending[i]) THEN accounts
                                   ELSE transfer(accounts, pending[i].sender,
                                                 pending[i].recipient,
                                                 pending[i].amount,
                                                 pending[i].fee,
                                                 pending[i].nonce).accounts
                              /\ \/ pc'[t] = "mine_loop" /\ cur'[t].i = i + 1
                                 \/ pc'[t] = "idle" /\ returned'.op = "mine"
                                      /\ returned'.kind # "Ok"
                         ELSE /\ accounts' =
                                   process_mining_reward(accounts,
                                       cur[t].miner, MiningReward).accounts
                              /\ pc'[t] = "mine_pow"
          /\ MineSucceeds(t) =>
                LET blk == chain'[Len(chain')]
                    n   == Len(cur[t].pending0)
                IN  /\ chain' = Append(chain, blk)
                    /\ accounts' = accounts
                    /\ Len(blk.transactions) = n + 1
                    /\ SubSeq(blk.transactions, 1, n) = cur[t].pending0
                    /\ is_coinbase(blk.transactions[n + 1])
                    /\ blk.transactions[n + 1].recipient = cur[t].miner
                    /\ blk.transactions[n + 1].amount = MiningReward
                    /\ blk.transactions[n + 1].id
                         \notin {cur[t].pending0[k].id : k \in 1..n}
          /\ chain' # chain => \E u \in Threads : MineSucceeds(u)]_vars

\* a block was mined from a mempool of two different transactions
C31_Witness ==
    /\ returned.op = "mine" /\ returned.kind = "Ok"
    /\ Len(chain[Len(chain)].transactions) = 3
    /\ chain[Len(chain)].transactions[1] # chain[Len(chain)].transactions[2]

\* the mempool thread t is mining holds, at positions 1 and 2, two
\* transactions signed by the same sender that carry the sender's committed
\* nonce and that the sender can each afford
SameNonceTwice(t) ==
    /\ pc[t] = "mine_loop"
    /\ Len(pending) = 2
    /\ pending[1].sender = pending[2].sender
    /\ pending[1].nonce = pending[2].nonce
    /\ \A i \in 1..2 :
          /\ NonCoinbase(pending[i])
          /\ SignedBySender(pending[i])
          /\ pending[i].nonce = NonceOf(cur[t].accounts0, pending[i].sender)
          /\ BalanceOf(cur[t].accounts0, pending[i].sender)
               >= pending[i].amount + pending[i].fee

\* C32: two transactions signed by the same sender with the sender's
\* committed nonce, each affordable, both pass the checks of add_transaction;
\* the next mine_block applies the transfer of the first and returns
\* InvalidNonce on the second, leaving chain and mempool as they were.
C32_SameNonceAborts ==
    /\ [](\A s \in Wallets, r \in Wallets :
            LET tx == Signed(ClientTx(s, r, MaxAmount, MinimumFee,
                                      NonceOf(accounts, s)), s)
            IN  BalanceOf(accounts, s) >= MaxAmount + MinimumFee
                    => admission(tx, accounts).kind = "Ok")
    /\ [][\A t \in Threads :
            (SameNonceTwice(t) /\ cur'[t] # cur[t]) =>
                IF cur[t].i = 1
                  THEN /\ pc'[t] = "mine_loop"
                       /\ cur'[t].i = 2
                       /\ accounts' # accounts
                  ELSE /\ MineFails(t)
                       /\ returned'.kind = "InvalidNonce"
                       /\ chain' = chain
                       /\ pending' = pending]_vars

\* C33: whenever with_storage has succeeded, the chain it recovered has at
\* every position the block of that index (chain[i].index = i, counting from
\* 0), whatever entries of the blocks tree were skipped as unreadable.
C33_RecoveredContiguous ==
    (returned.op = "with_storage" /\ returned.kind = "Ok") =>
        \A i \in DOMAIN chain : chain[i].index = i - 1

\* C34: a transaction with sender "0", fee 0 and nonce 0 passes the checks
\* of add_transaction whatever its amount, its signature and the account
\* state are; the iteration of mine_block that meets it in the mempool
\* changes no account; a block mined from the mempool holds it; and when the
\* mempool held nothing but such transactions the only change of the account
\* state is mining_reward added to the miner's balance.
C34_ClientCoinbase ==
    /\ [](\A r \in Wallets, m \in Amounts :
            admission(ClientTx(SystemAddress, r, m, 0, 0), accounts).kind
                = "Ok")
    /\ [][\A t \in Threads :
            /\ (pc[t] = "mine_loop" /\ cur'[t] # cur[t]
                /\ cur[t].i <= Len(pending)
                /\ ~NonCoinbase(pending[cur[t].i])) =>
                    /\ accounts' = accounts
                    /\ pc'[t] = "mine_loop"
                    /\ cur'[t].i = cur[t].i + 1
            /\ MineSucceeds(t) =>
                  LET blk == chain'[Len(chain')]
                      old == cur[t].accounts0
                      own == cur[t].pending0
                  IN  /\ \A i \in DOMAIN own : blk.transactions[i] = own[i]
                      /\ (\A i \in DOMAIN own : ~NonCoinbase(own[i])) =>
                            \A a \in Addresses :
                               /\ NonceOf(accounts', a) = NonceOf(old, a)
                               /\ BalanceOf(accounts', a)
                                    = BalanceOf(old, a)
                                      + (IF a = cur[t].miner
                                           THEN MiningReward ELSE 0)]_vars

\* a block was mined that holds a client's coinbase-shaped transaction paying
\* a wallet that is not the miner, and that wallet's balance is still zero
C34_Witness ==
    /\ returned.op = "mine" /\ returned.kind = "Ok"
    /\ LET txs == chain[Len(chain)].transactions
       IN  /\ Len(txs) = 2
           /\ ~NonCoinbase(txs[1])
           /\ txs[1].amount = MaxAmount
           /\ txs[1].recipient # txs[2].recipient
           /\ BalanceOf(accounts, txs[1].recipient) = 0
           /\ BalanceOf(accounts, txs[2].recipient) = MiningReward

\* C35: a call of AccountState::transfer whose nonce differs from the
\* sender's returns InvalidNonce also when the sender cannot afford it;
\* with the right nonce it returns InsufficientFunds when the balance is
\* below amount + fee, and InvalidAmount when amount + fee or amount is not
\* positive; and a call that returns any error leaves the account map, with
\* the stored accounts of sender and recipient, as it found it.
C35_TransferErrors ==
    [][pc[1] = "transfer_call" =>
          LET c      == cur[1]
              sender == get_account(accounts, c.from)
              total  == c.amount + c.fee
          IN  /\ returned'.op = "transfer"
              /\ returned'.kind # "Ok" => accounts' = accounts
              /\ returned'.kind =
                    IF sender.nonce # c.nonce THEN "InvalidNonce"
                    ELSE IF sender.balance < total THEN "InsufficientFunds"
                    ELSE IF total <= 0 \/ c.amount <= 0 THEN "InvalidAmount"
                    ELSE "Ok"]_vars

\* a call with a wrong nonce and an amount the stored sender could not
\* afford has returned InvalidNonce, with a stored recipient
C35_Witness ==
    /\ pc[1] = "transfer_done"
    /\ returned.kind = "InvalidNonce"
    /\ cur[1].from \in DOMAIN accounts
    /\ cur[1].to \in DOMAIN accounts
    /\ cur[1].from # cur[1].to
    /\ cur[1].amount > 0
    /\ accounts[cur[1].from].balance < cur[1].amount + cur[1].fee

\* mine_block has just returned an error
MineFailed == returned.op = "mine" /\ returned.kind # "Ok"

\* C36: once mine_block has returned an error from a transfer of its loop,
\* no later mine_block returns Ok while only add_transaction and mine_block
\* are called: the chain keeps its length and the mempool stays non-empty.
C36_NoRecovery ==
    \A n \in 1..(MaxMines + 1) :
        []((MineFailed /\ Len(chain) = n) =>
              [](/\ Len(chain) = n
                 /\ pending # <<>>
                 /\ ~(returned.op = "mine" /\ returned.kind = "Ok")))

\* a second mine_block has failed on the mempool on which the first one had
\* applied a transfer and then failed
C36_Witness ==
    /\ MineFailed
    /\ nMines = 2
    /\ Len(chain) = 1
    /\ Len(pending) = 2
    /\ NonceOf(accounts, "A") = 1

\* the account map after the transfers of txs are applied to accts in order,
\* coinbase-shaped entries left out
RECURSIVE TransfersApplied(_, _)
TransfersApplied(accts, txs) ==
    IF txs = <<>> THEN accts
    ELSE TransfersApplied(
             IF NonCoinbase(Head(txs))
               THEN transfer(accts, Head(txs).sender, Head(txs).recipient,
                             Head(txs).amount, Head(txs).fee,
                             Head(txs).nonce).accounts
               ELSE accts,
             Tail(txs))

\* C37: when a write to the storage fails inside mine_block, mine_block
\* returns the StorageError and what it did in memory stays: the new block
\* (the mempool's transactions and the coinbase) is the last block of the
\* chain, the mempool is empty, and the accounts are those after the
\* transfers and the mining reward.
C37_StorageErrorKeepsEffects ==
    [][\A t \in Threads :
          (pc[t] = "mine_pow" /\ returned'.op = "mine"
           /\ returned'.kind = "StorageError") =>
              LET blk == chain'[Len(chain')]
                  n   == Len(cur[t].pending0)
              IN  /\ chain' = Append(chain, blk)
                  /\ blk.index = get_last_block(chain).index + 1
                  /\ Len(blk.transactions) = n + 1
                  /\ SubSeq(blk.transactions, 1, n) = cur[t].pending0
                  /\ blk.transactions[n + 1].recipient = cur[t].miner
                  /\ pending' = <<>>
                  /\ accounts' =
                        process_mining_reward(
                            TransfersApplied(cur[t].accounts0,
                                             cur[t].pending0),
                            cur[t].miner, MiningReward).accounts
                  /\ accounts' # cur[t].accounts0]_vars

\* mine_block has returned a StorageError for a block holding a transfer,
\* with the block written and no account written
C37_Witness ==
    /\ returned.op = "mine" /\ returned.kind = "StorageError"
    /\ Len(chain) = 2
    /\ Len(chain[2].transactions) = 2
    /\ chain[2].transactions[1].sender # chain[2].transactions[1].recipient
    /\ chain[2].hash \in DOMAIN storage.blocks
    /\ DOMAIN storage.accounts = {}

\* the account map after the blocks of ch are applied to accts in order:
\* the transfers of a block, then the reward its last transaction pays
RECURSIVE BlocksApplied(_, _)
BlocksApplied(accts, ch) ==
    IF ch = <<>> THEN accts
    ELSE LET txs == Head(ch).transactions
             n   == Len(txs)
         IN  BlocksApplied(
                 IF n = 0 THEN accts
                 ELSE process_mining_reward(
                          TransfersApplied(accts, SubSeq(txs, 1, n - 1)),
                          txs[n].recipient, txs[n].amount).accounts,
                 Tail(ch))

\* C38: when the process has stopped inside the persistence step of
\* mine_block and with_storage then succeeds on the directory, the accounts
\* recovered are those that the blocks of the recovered chain produce (on a
\* node whose accounts were changed by mine_block only).
C38_StopConsistent ==
    [][(/\ returned.op = "stop"
        /\ funded = 0
        /\ returned'.op = "with_storage"
        /\ returned'.kind = "Ok") =>
          accounts' = BlocksApplied(<<>>, chain')]_vars

\* C39: in every state a reader can see while a mine_block call is running,
\* if the account map already holds the transfers of the call's mempool and
\* the miner's reward, the chain already holds one block more than the call
\* found.
C39_AccountsNotAhead ==
    \A t \in Threads :
        (/\ pc[t] \in {"mine_loop", "mine_pow"}
         /\ accounts =
               process_mining_reward(
                   TransfersApplied(cur[t].accounts0, cur[t].pending0),
                   cur[t].miner, MiningReward).accounts) =>
            Len(chain) = Len(cur[t].chain0) + 1

\* C39 as the code has it: the chain never runs ahead of the account state.
\* The chain changes only by the push of a running mine_block, and at that
\* point the account map already holds the transfers of the call's mempool
\* and the miner's reward, and the push leaves it as it is.
C39_ChainNotAhead ==
    [][chain' # chain =>
          \E t \in Threads :
              /\ pc[t] = "mine_pow"
              /\ Len(chain') = Len(cur[t].chain0) + 1
              /\ chain'[Len(chain')].transactions = cur[t].transactions
              /\ accounts =
                    process_mining_reward(
                        TransfersApplied(cur[t].accounts0, cur[t].pending0),
                        cur[t].miner, MiningReward).accounts
              /\ accounts' = accounts]_vars

\* a reader sees the sender's nonce raised and the reward credited by a
\* mine_block that has not yet pushed its block
C39_Witness ==
    \E t \in Threads :
        /\ pc[t] = "mine_pow"
        /\ Len(cur[t].pending0) = 1
        /\ cur[t].pending0[1].sender # cur[t].pending0[1].recipient
        /\ NonceOf(accounts, cur[t].pending0[1].sender)
             = NonceOf(cur[t].accounts0, cur[t].pending0[1].sender) + 1
        /\ BalanceOf(accounts, cur[t].miner)
             >= MiningReward
        /\ chain = cur[t].chain0

\* C40: add_transaction writes nothing to the storage, and a with_storage
\* that succeeds leaves the mempool empty: a transaction that was in the
\* mempool when the node stopped is in no block of the recovered chain and
\* not in the transactions tree, and the recovered nonce of its sender is not
\* past its nonce.
C40_MempoolNotPersisted ==
    [][/\ (Len(pending') > Len(pending)) =>
              /\ storage' = storage
              /\ chain' = chain
              /\ accounts' = accounts
       /\ (returned'.op = "with_storage" /\ returned'.kind = "Ok") =>
              /\ pending' = <<>>
              /\ \A i \in DOMAIN pending :
                    /\ pending[i].id \notin DOMAIN storage'.transactions
                    /\ \A k \in DOMAIN chain' :
                          \A j \in DOMAIN chain'[k].transactions :
                              chain'[k].transactions[j] # pending[i]
                    /\ NonceOf(accounts', pending[i].sender)
                         <= pending[i].nonce]_vars

\* the node was opened again after two transactions had been admitted and
\* none mined
C40_Witness ==
    /\ returned.op = "with_storage" /\ returned.kind = "Ok"
    /\ nAdds = 2
    /\ nMines = 0
    /\ pending = <<>>
    /\ \A t \in Threads : pc[t] = "idle"

====
